---- MODULE Spec2Model ----
(***************************************************************************)
(* Hot-patch build driver: the Builder (builder.rs), the hot-patch         *)
(* WebSocket server (ws_server.rs) and the demo client (demo.rs).          *)
(*                                                                         *)
(* The broadcast queue is multiqueue's bounded broadcast channel: one      *)
(* write log shared by all streams, one read cursor per stream.  The log   *)
(* patch_queue keeps every message ever accepted by try_send; a stream's   *)
(* pending messages are the ones after its cursor.  The server's own       *)
(* receiver (patch_receiver) is a stream too, and is read only by          *)
(* clear_patches_if_command_received.                                      *)
(***************************************************************************)
EXTENDS Integers, Sequences, FiniteSets, TLC

\* ------------------------------------------------------------------ bounds
\* Slots of the broadcast queue (the driver creates it with a larger one).
QueueCapacity == 2
\* Thin builds that get past the ASLR check (each has its own time_start).
MaxThin == 3
\* Fat builds per Builder.
MaxFat == 2
\* Connections the listener hands to run().
MaxClients == 2
\* ClearPatches signals sent by the driver.
MaxClears == 1
\* Process ids the OS gives to spawned children: 1..MaxPid.
MaxPid == 2
\* Segments of a handshake query and decimal digits of a value.
MaxSegments == 2
MaxDigits == 2
\* Members of an rlib on disk.
MaxMembers == 2
\* Fat links one after the other.
MaxLinks == 2
\* Arguments of a captured linker argv behind its first.
MaxArgs == 4
\* Arguments of a captured rustc argv, its first included.
MaxRustcArgs == 2
\* Variables of a captured environment.
MaxEnvs == 2

\* ------------------------------------------------------------ Option<T>
None == <<>>
Some(x) == <<x>>

Min(S) == CHOOSE x \in S : \A y \in S : x <= y
Max(S) == CHOOSE x \in S : \A y \in S : x >= y

\* ----------------------------------------------------------- the targets
\* One Builder per target: a native binary, a wasm32 library and a wasm64
\* library.
Builders == {"server", "front", "front64"}

\* Context of each Builder: the fields of the triple the code reads, and bin.
ctx ==
    [b \in Builders |->
        IF b = "server"
        THEN [architecture |-> "X86_64", operating_system |-> "Linux",
              environment |-> "Gnu", bin |-> Some("demo")]
        ELSE [architecture |-> IF b = "front" THEN "Wasm32" ELSE "Wasm64",
              operating_system |-> "Unknown", environment |-> "Unknown", bin |-> None]]

\* Context::linker_flavor
linker_flavor(c) ==
    IF c.environment \in {"Gnu", "Gnuabi64", "Gnueabi", "Gnueabihf", "GnuLlvm"} THEN "Gnu"
    ELSE IF c.operating_system = "Linux" THEN "Gnu"
    ELSE IF c.architecture \in {"Wasm32", "Wasm64"} THEN "WasmLld"
    ELSE "Unsupported"

\* Context::is_wasm_or_wasi
is_wasm_or_wasi(c) ==
    \/ c.architecture \in {"Wasm32", "Wasm64"}
    \/ c.operating_system = "Wasi"

Clients == 1..MaxClients
Pids == 1..MaxPid

VARIABLES
    aslr_reference,    \* the shared AtomicU64
    patch_queue,       \* write log of the broadcast queue
    patch_receiver,    \* cursor of the server's own receiver
    clear_patches_rx,  \* ClearPatches signals pending in the mpsc channel
    clients,           \* per connection: thread state, stream cursor, frames sent
    builders,          \* per Builder: its fields and whether its thread lives
    disk,              \* per target: artifacts on disk
    os,                \* children spawned and children sent a kill
    time,              \* thin builds started (time_start) and fat builds run
    ev,                \* the last Builder call and what it did
    hs,                \* the last handshake and what it read
    hist,              \* history: last signal and drain, last spawn, a failed try_send
    demo,              \* the demo client's last callback
    link,              \* the fat link: captured argv, files, what fat_link made
    cmd                \* the thin compile: captured invocation, the Command built

vars ==
    <<aslr_reference, patch_queue, patch_receiver, clear_patches_rx, clients,
      builders, disk, os, time, ev, hs, hist, demo, link, cmd>>

transport == <<patch_queue, patch_receiver, clear_patches_rx, clients, hist>>

\* ------------------------------------------------------------- messages
\* serde_json's rendering of Option<u32>: null or a number.
JNull == [t |-> "null"]
JNum(n) == [t |-> "num", v |-> n]
JOptNum(o) == IF o = None THEN JNull ELSE JNum(o[1])

\* JumpTable as create_jump_table returns it: lib is the patch artifact of the
\* thin build started at time t.
JumpTableOf(t) == [lib |-> [dir |-> "target", file |-> t]]

\* The message with for_pid left out.
HotReloadMsgNoPid(self, jump_table) ==
    [kind |-> "HotReload", templates |-> <<>>, assets |-> <<>>, ms_elapsed |-> 0,
     jump_table |-> Some(jump_table), for_build_id |-> None, for_pid |-> None]

\* The DevserverMsg::HotReload that build_thin constructs.
HotReloadMsg(self, jump_table) ==
    [kind |-> "HotReload",
     templates |-> <<>>,
     assets |-> <<>>,
     ms_elapsed |-> 0,
     jump_table |-> Some(jump_table),
     for_build_id |-> None,
     for_pid |-> self.pid]

\* serde_json::to_string(&msg) wrapped in tungstenite::Message::Text.
TextFrame(msg) ==
    [frame |-> "Text",
     tag |-> msg.kind,
     templates |-> msg.templates,
     assets |-> msg.assets,
     ms_elapsed |-> JNum(msg.ms_elapsed),
     jump_table |-> IF msg.jump_table = None THEN JNull
                    ELSE [t |-> "obj", lib |-> msg.jump_table[1].lib],
     for_build_id |-> JOptNum(msg.for_build_id),
     for_pid |-> JOptNum(msg.for_pid)]

\* ------------------------------------------------------ broadcast queue
\* A stream is live while its receiver exists: the server's own receiver
\* always, a client's from add_stream until its thread ends.
LiveStream(c) == clients[c].st \in {"accepted", "open"}

\* The slowest live reader decides how many slots are taken.
QueueLen ==
    Len(patch_queue)
        - Min({patch_receiver} \cup {clients[c].cur : c \in {d \in Clients : LiveStream(d)}})

\* BroadcastSender::try_send fails when no slot is free.
QueueFull == QueueLen >= QueueCapacity

\* A send that puts the message in front of the waiting ones.
try_send_front(queue, msg) == <<msg>> \o queue

\* BroadcastSender::try_send when a slot is free: the message goes to the tail.
try_send(queue, msg) == Append(queue, msg)

\* A stream that starts at the tail of the queue: nothing is replayed.
add_stream_at_tail(receiver, tail) == tail

\* BroadcastReceiver::add_stream: the new stream starts at the cursor of the
\* receiver it is made from.
add_stream(receiver, tail) == receiver

\* An if in place of the while: one message is taken.
DrainOne(receiver, tail) == IF receiver < tail THEN receiver + 1 ELSE receiver

\* while let Ok(_) = self.patch_receiver.try_recv() {}
RECURSIVE Drain(_, _)
Drain(receiver, tail) ==
    IF receiver < tail THEN Drain(receiver + 1, tail) ELSE receiver

\* Subscriber streams that are clones of the server's receiver: what the
\* receiver takes is gone for them too.
drain_shared(cs, receiver) ==
    [c \in Clients |->
        IF cs[c].st \in {"accepted", "open"}
        THEN [cs[c] EXCEPT !.cur = Max({@, receiver})]
        ELSE cs[c]]

\* The streams of the subscribers come from add_stream: each has a cursor of
\* its own, which try_recv on patch_receiver leaves where it is.
drain_others(cs, receiver) == cs

\* HotPatchServer::clear_patches_if_command_received: the receiver's cursor
\* after the call, given whether try_recv on clear_patches_rx got a signal.
clear_patches_if_command_received(signal, receiver, tail) ==
    IF signal THEN Drain(receiver, tail) ELSE receiver

\* ------------------------------------------------------- handshake query
Digits == {"0", "7"}
Chars == Digits \cup {"x"}
DigitVal(ch) == IF ch = "7" THEN 7 ELSE 0

RECURSIVE StringsUpTo(_)
StringsUpTo(n) ==
    IF n = 0 THEN {<<>>}
    ELSE LET S == StringsUpTo(n - 1)
         IN S \cup {Append(s, ch) : s \in {x \in S : Len(x) = n - 1}, ch \in Chars}

\* A segment of the query between two '&': key=val.
Segments ==
    [key : {"aslr_reference"}, val : StringsUpTo(MaxDigits)]
        \cup [key : {"build_id"}, val : {<<"7">>}]

RECURSIVE QueriesUpTo(_)
QueriesUpTo(n) ==
    IF n = 0 THEN {<<>>}
    ELSE LET S == QueriesUpTo(n - 1)
         IN S \cup {Append(q, g) : q \in {x \in S : Len(x) = n - 1}, g \in Segments}

\* request.uri().query(): None without a '?', else the '&'-separated segments.
Queries == {None} \cup {Some(q) : q \in QueriesUpTo(MaxSegments) \ {<<>>}}

\* s.strip_prefix("aslr_reference=")
strip_prefix(s) == IF s.key = "aslr_reference" THEN Some(s.val) ELSE None

\* str::parse::<u64>: Err on the empty string and on a non-digit, else the
\* decimal value, read left to right.
RECURSIVE ParseDigits(_, _)
ParseDigits(str, acc) ==
    IF str = <<>> THEN Some(acc)
    ELSE IF Head(str) \notin Digits THEN None
    ELSE ParseDigits(Tail(str), acc * 10 + DigitVal(Head(str)))

parse(str) == IF str = <<>> THEN None ELSE ParseDigits(str, 0)

\* The store without its test for zero.
StoreAlways(parsed, atomic) == IF parsed # None THEN parsed[1] ELSE atomic

\* if new_aslr_reference != 0 { aslr_reference.store(..) }
StoreIfNonZero(parsed, atomic) ==
    IF parsed # None /\ parsed[1] # 0 THEN parsed[1] ELSE atomic

\* for s in split { if let Some(..) = s.strip_prefix(..) { ..; break; } }
RECURSIVE ForSplit(_, _)
ForSplit(split, atomic) ==
    IF split = <<>> THEN atomic
    ELSE IF strip_prefix(Head(split)) # None
         THEN StoreIfNonZero(parse(strip_prefix(Head(split))[1]), atomic)
         ELSE ForSplit(Tail(split), atomic)

\* The accept_hdr callback: the value of the atomic after it ran.
accept_hdr_callback(query, atomic) ==
    IF query = None THEN atomic ELSE ForSplit(query[1], atomic)

\* ------------------------------------------------------------- fat link
\* File names and arguments are strings; what the code asks of them is how
\* they end.
Suffixes ==
    {<<"lib.rmeta", ".rmeta">>, <<"app.rcgu.o", ".rcgu.o">>, <<"app.rcgu.o", ".o">>,
     <<"app.obj", ".obj">>, <<"libz.so", ".so">>, <<"main.o", ".o">>,
     <<"libapp.rlib", ".rlib">>, <<"libsys.rlib", ".rlib">>, <<"libstd.rlib", ".rlib">>,
     <<"libdeps-.a", ".a">>, <<"/WHOLEARCHIVE:libdeps-.a", ".a">>,
     <<"core.rcgu.o", ".rcgu.o">>, <<"core.rcgu.o", ".o">>, <<"stub.o", ".o">>}

\* str::ends_with
ends_with(str, suffix) == <<str, suffix>> \in Suffixes

\* An argument of a linker command line.  The archive path libdeps-<hash>.a
\* carries what its hash was made of.
Arg(str) == [s |-> str, of |-> <<>>]

\* The rlib arguments of the captured argv (its first element included).
FilterRlibs(link_args) == SelectSeq(link_args, LAMBDA arg : ends_with(arg.s, ".rlib"))

\* Uuid::new_v5 over name-size-mtime of every rlib, first 8 characters: the
\* same rlibs give the same id, other rlibs another one.
hash_id(rlibs) == [i \in 1..Len(rlibs) |-> rlibs[i].s]

\* exe.with_file_name("libdeps-{hash_id}.a")
out_ar_path(rlibs) == [s |-> "libdeps-.a", of |-> hash_id(rlibs)]

\* What a file system holds under a path: the record of the one file of files
\* with that key, if any.
FileAt(files, key) ==
    IF \E f \in files : f.key = key THEN Some(CHOOSE f \in files : f.key = key) ELSE None

WriteFile(files, f) == {g \in files : g.key # f.key} \cup {f}

\* A member that is no object is passed over and leaves no mark.
entry_never_keeps(name, size) ==
    IF ends_with(name, ".rmeta") THEN "continue"
    ELSE IF size = 0 THEN "continue"
    ELSE IF ~(ends_with(name, ".rcgu.o") \/ ends_with(name, ".obj")) THEN "continue"
    ELSE "append"

\* A member is taken whatever its size.
entry_any_size(name, size) ==
    IF ends_with(name, ".rmeta") THEN "continue"
    ELSE IF ~(ends_with(name, ".rcgu.o") \/ ends_with(name, ".obj")) THEN "keep_linker_rlib"
    ELSE "append"

\* The three tests on a member of an rlib, in the order of the loop body.
entry(name, size) ==
    IF ends_with(name, ".rmeta") THEN "continue"
    ELSE IF size = 0 THEN "continue"
    ELSE IF ~(ends_with(name, ".rcgu.o") \/ ends_with(name, ".obj")) THEN "keep_linker_rlib"
    ELSE "append"

\* while let Some(Ok(object_file)) = reader.next_entry() { .. }: the loop ends
\* at the end of the rlib and at the first entry that cannot be read.
RECURSIVE next_entry(_, _, _)
next_entry(rlib, entries, acc) ==
    IF entries = <<>> \/ ~Head(entries).ok THEN acc
    ELSE LET e == Head(entries)
             what == entry(e.name, e.size)
         IN next_entry(rlib, Tail(entries),
                [members |-> IF what = "append"
                             THEN Append(acc.members,
                                         [from |-> rlib.s, name |-> e.name, size |-> e.size])
                             ELSE acc.members,
                 keep_linker_rlib |-> acc.keep_linker_rlib \/ what = "keep_linker_rlib",
                 archive_has_contents |-> acc.archive_has_contents \/ what = "append"])

\* for rlib in &rlibs { .. }: rlibs outside the working directory are skipped
\* and kept for the linker; an rlib that cannot be read panics (None).
RECURSIVE for_rlib(_, _, _)
for_rlib(rlibs, rlib_files, acc) ==
    IF rlibs = <<>> THEN Some(acc)
    ELSE LET rlib == Head(rlibs)
             file == rlib_files[rlib.s]
         IN IF ~file.in_working_dir
            THEN for_rlib(Tail(rlibs), rlib_files,
                          [acc EXCEPT !.compiler_rlibs = Append(@, rlib)])
            ELSE IF file.contents = None THEN None
            ELSE LET got == next_entry(rlib, file.contents[1],
                                [members |-> acc.members, keep_linker_rlib |-> FALSE,
                                 archive_has_contents |-> acc.archive_has_contents])
                 IN for_rlib(Tail(rlibs), rlib_files,
                        [members |-> got.members,
                         archive_has_contents |-> got.archive_has_contents,
                         compiler_rlibs |-> IF got.keep_linker_rlib
                                            THEN Append(acc.compiler_rlibs, rlib)
                                            ELSE acc.compiler_rlibs])

\* Vec::dedup: of equal neighbours the first is kept.
RECURSIVE dedup(_)
dedup(v) ==
    IF Len(v) <= 1 THEN v
    ELSE IF v[1] = v[2] THEN dedup(Tail(v))
    ELSE <<v[1]>> \o dedup(Tail(v))

\* fat_link up to compiler_rlibs.dedup(): the archive and the rlibs kept for
\* the linker.  With the archive on disk and a release build of the driver
\* both are reused; else the archive is written anew.  None: a panic.
fat_archive(link_args, rlib_files, ar_files, list_files, debug_assertions) ==
    LET rlibs == FilterRlibs(link_args)
        key == hash_id(rlibs)
        exists == FileAt(ar_files, key) # None
        listed == IF FileAt(list_files, key) # None
                  THEN FileAt(list_files, key)[1].lines ELSE <<>>
    IN IF ~exists \/ debug_assertions
       THEN LET made == for_rlib(rlibs, rlib_files,
                            [members |-> <<>>, archive_has_contents |-> exists,
                             compiler_rlibs |-> <<>>])
            IN IF made = None THEN None
               ELSE Some([written |-> TRUE,
                          members |-> made[1].members,
                          archive_has_contents |-> made[1].archive_has_contents,
                          compiler_rlibs |-> dedup(made[1].compiler_rlibs),
                          ar_files |-> WriteFile(ar_files,
                                         [key |-> key, members |-> made[1].members])])
       ELSE Some([written |-> FALSE,
                  members |-> FileAt(ar_files, key)[1].members,
                  archive_has_contents |-> TRUE,
                  compiler_rlibs |-> dedup(listed),
                  ar_files |-> ar_files])

\* The first .o argument instead of the last.
position_first(args) ==
    IF \E i \in 1..Len(args) : ends_with(args[i].s, ".o")
    THEN Some(Min({i \in 1..Len(args) : ends_with(args[i].s, ".o")}) - 1)
    ELSE None

\* args.iter().rposition(|arg| arg.ends_with(".o")): the index, from 0, of the
\* last .o argument.
rposition(args) ==
    IF \E i \in 1..Len(args) : ends_with(args[i].s, ".o")
    THEN Some(Max({i \in 1..Len(args) : ends_with(args[i].s, ".o")}) - 1)
    ELSE None

\* The arguments each arm of the match inserts at last_object.
whole_archive(flavor, path) ==
    CASE flavor = "WasmLld" -> <<Arg("--whole-archive"), path, Arg("--no-whole-archive")>>
      [] flavor = "Gnu" -> <<Arg("-Wl,--whole-archive"), path, Arg("-Wl,--no-whole-archive")>>
      [] flavor = "Darwin" -> <<Arg("-Wl,-force_load"), path>>
      [] flavor = "Msvc" -> <<[s |-> "/WHOLEARCHIVE:libdeps-.a", of |-> path.of]>>
      [] OTHER -> <<>>

\* Vec::insert at an index counted from 0: the elements from index on move up;
\* an index beyond the length panics (None).
insert(v, index, element) ==
    IF index > Len(v) THEN None
    ELSE Some(SubSeq(v, 1, index) \o <<element>> \o SubSeq(v, index + 1, Len(v)))

\* Successive inserts of the elements of span at index, index + 1, ..
RECURSIVE insert_span(_, _, _)
insert_span(v, index, span) ==
    IF span = <<>> THEN Some(v)
    ELSE IF insert(v, index, Head(span)) = None THEN None
    ELSE insert_span(insert(v, index, Head(span))[1], index + 1, Tail(span))

\* for rlib in compiler_rlibs.iter().rev() { args.insert(index, rlib) }:
\* rlibs is given last first.
RECURSIVE insert_rev(_, _, _)
insert_rev(v, index, rlibs) ==
    IF rlibs = <<>> THEN Some(v)
    ELSE IF insert(v, index, Head(rlibs)) = None THEN None
    ELSE insert_rev(insert(v, index, Head(rlibs))[1], index, Tail(rlibs))

Reverse(v) == [i \in 1..Len(v) |-> v[Len(v) + 1 - i]]

\* args.retain(|arg| !arg.ends_with(".rlib"))
retain(args) == SelectSeq(args, LAMBDA arg : ~ends_with(arg.s, ".rlib"))

\* fat_link from link_args.iter().skip(1) to the end of the match on the
\* flavor: the argv with the whole-archive span spliced in, or None when an
\* insert panics.
splice(link_args, flavor, archive_has_contents, path, compiler_rlibs) ==
    LET args == Tail(link_args)
        last_object == rposition(args)
        span == whole_archive(flavor, path)
    IN IF last_object = None \/ ~archive_has_contents \/ flavor = "Unsupported"
       THEN Some(args)
       ELSE LET spanned == insert_span(args, last_object[1], span)
            IN IF spanned = None THEN None
               ELSE insert_rev(retain(spanned[1]), last_object[1] + Len(span),
                               Reverse(compiler_rlibs))

\* The custom arguments pushed per LinkerFlavor.
custom_args(flavor) ==
    CASE flavor = "Gnu" -> <<Arg("-Wl,--export-dynamic-symbol,main")>>
      [] flavor = "Darwin" -> <<Arg("-Wl,-exported_symbol,_main")>>
      [] flavor = "Msvc" -> <<Arg("/HIGHENTROPYVA:NO"), Arg("/EXPORT:main")>>
      [] OTHER -> <<>>

\* str::starts_with("/OUT") on the arguments of the model.
starts_with_OUT(str) == str \in {"/OUT:deps/app", "/OUT:target/app"}

\* The index, from 0, of the first argument that passes the test.
position_output(args) ==
    IF \E i \in 1..Len(args) : args[i].s \in {"-o", "--output"}
    THEN Some(Min({i \in 1..Len(args) : args[i].s \in {"-o", "--output"}}) - 1)
    ELSE None

position_OUT(args) ==
    IF \E i \in 1..Len(args) : starts_with_OUT(args[i].s)
    THEN Some(Min({i \in 1..Len(args) : starts_with_OUT(args[i].s)}) - 1)
    ELSE None

position_flavor(args) ==
    IF \E i \in 1..Len(args) : args[i].s = "-flavor"
    THEN Some(Min({i \in 1..Len(args) : args[i].s = "-flavor"}) - 1)
    ELSE None

\* Vec::remove at an index counted from 0: an index at or beyond the length
\* panics (None).
remove(v, index) ==
    IF index >= Len(v) THEN None
    ELSE Some(SubSeq(v, 1, index) \o SubSeq(v, index + 2, Len(v)))

\* args.remove(idx + 1); args.remove(idx);
remove_pair(v, idx) ==
    IF remove(v, idx + 1) = None THEN None ELSE remove(remove(v, idx + 1)[1], idx)

\* The first -o or --output with the argument after it is removed, then the
\* first argument that starts with /OUT.
strip_output(args) ==
    LET stripped == IF position_output(args) = None THEN Some(args)
                    ELSE remove_pair(args, position_output(args)[1])
    IN IF stripped = None THEN None
       ELSE IF position_OUT(stripped[1]) = None THEN stripped
       ELSE remove(stripped[1], position_OUT(stripped[1])[1])

\* On wasm and wasi: position(-flavor).unwrap(), then the pair is removed.
strip_flavor(c, args) ==
    IF ~is_wasm_or_wasi(c) THEN Some(args)
    ELSE IF position_flavor(args) = None THEN None
    ELSE remove_pair(args, position_flavor(args)[1])

\* The output directive for exe: /OUT:<exe> on Windows, else -o <exe>.
output_file(c) ==
    IF c.operating_system = "Windows" THEN <<Arg("/OUT:target/app")>>
    ELSE <<Arg("-o"), Arg("target/app")>>

\* fat_link from the custom arguments to the output file: what is done to the
\* spliced args before the linker is run.  None: a panic.
finish_args(c, args) ==
    LET stripped == strip_output(args \o custom_args(linker_flavor(c)))
    IN IF stripped = None THEN None
       ELSE IF strip_flavor(c, stripped[1]) = None THEN None
       ELSE Some(strip_flavor(c, stripped[1])[1] \o output_file(c))

\* ---------------------------------------------------------------- Init
NoClient ==
    [st |-> "free", cur |-> 0, sent |-> <<>>, peer_gone |-> FALSE,
     sub |-> [n |-> 0, start |-> 0, drain |-> -1, signal |-> -1]]

\* Builder::new
NewBuilder ==
    [alive |-> TRUE, cache |-> 0, rustc_args |-> 0, pid |-> None,
     running_binary |-> None]

\* A project with one target only: the Builder of the other target is never
\* made.
NotBuilt == [NewBuilder EXCEPT !.alive = FALSE]

NoEvent ==
    [b |-> "server", op |-> "none", fail |-> "none", run |-> [none |-> TRUE],
     pre |-> [builder |-> NewBuilder, queue |-> 0, thin |-> 0]]

NoHandshake == [c |-> 0, query |-> None, io |-> "none", pre |-> 0]

\* No thin compile command under way.
NoCmd ==
    [st |-> "none", rustc_args |-> [args |-> <<>>, envs |-> <<>>, link_args |-> <<>>],
     ctx |-> [architecture |-> "Unknown", operating_system |-> "Unknown",
              environment |-> "Unknown"],
     args |-> <<>>, env |-> [clear |-> FALSE, vars |-> {}],
     link_args_file |-> <<>>, object_files |-> None, out_args |-> None]

\* No fat link under way.
NoLink ==
    [st |-> "none", link_args |-> <<>>, ctx |-> [architecture |-> "Unknown",
     operating_system |-> "Unknown", environment |-> "Unknown"], rlib_files |-> <<>>,
     ar_files |-> {}, list_files |-> {}, debug_assertions |-> TRUE, runs |-> 0,
     flavor |-> "none", args |-> <<>>, archive |-> None, compiler_rlibs |-> <<>>]

NoDemo ==
    [pid |-> 1, alive |-> TRUE, msg |-> [kind |-> "none"], called |-> FALSE,
     applied |-> {}]

\* The Builder once its first fat build has returned: build_fat has stored the
\* captured arguments and the module cache of fat build 1.
ReadyBuilder == [NewBuilder EXCEPT !.cache = 1, !.rustc_args = 1]

\* The state once the server and the Builders bs are made; fat[b] is the
\* number of fat builds Builder b has run since.
InitWith(bs, fat) ==
    /\ aslr_reference = 0
    /\ patch_queue = <<>>
    /\ patch_receiver = 0
    /\ clear_patches_rx = 0
    /\ clients = [c \in Clients |-> NoClient]
    /\ builders = bs
    /\ disk = [exe |-> fat, bundle |-> fat]
    /\ os = [spawned |-> 0, killed |-> [p \in Pids |-> 0]]
    /\ time = [thin |-> 0, fat |-> fat]
    /\ ev = NoEvent
    /\ hs = NoHandshake
    /\ hist = [signal |-> -1, drain |-> -1, spawn |-> [b \in Builders |-> None],
               full |-> FALSE]
    /\ demo = NoDemo
    /\ link = NoLink
    /\ cmd = NoCmd

\* Right after construction: no fat build has run.
Init ==
    \E target \in Builders :
        InitWith([b \in Builders |-> IF b = target THEN NewBuilder ELSE NotBuilt],
                 [b \in Builders |-> 0])

\* After the first fat build of the one target has returned.
InitReady ==
    \E target \in Builders :
        InitWith([b \in Builders |-> IF b = target THEN ReadyBuilder ELSE NotBuilt],
                 [b \in Builders |-> IF b = target THEN 1 ELSE 0])

\* ------------------------------------------------------------ transport
\* The driver sends () on the ClearPatches channel.
send_clear_patches ==
    /\ clear_patches_rx < MaxClears
    /\ clear_patches_rx' = clear_patches_rx + 1
    /\ hist' = [hist EXCEPT !.signal = Len(patch_queue)]
    /\ UNCHANGED <<aslr_reference, patch_queue, patch_receiver, clients, builders,
                   disk, os, time, demo, link, cmd>>

\* HotPatchServer::run, one turn of the loop over server.incoming(): connection
\* c arrives, as Ok(stream) or as Err.
run(c, stream_ok) ==
    /\ clients[c].st = "free"
    /\ \A d \in Clients : d < c => clients[d].st # "free"
    /\ LET signal == clear_patches_rx > 0
           tail == Len(patch_queue)
           receiver == clear_patches_if_command_received(signal, patch_receiver, tail)
           drained == IF signal THEN tail ELSE hist.drain
       IN /\ clear_patches_rx' = IF signal THEN clear_patches_rx - 1 ELSE clear_patches_rx
          /\ patch_receiver' = receiver
          /\ hist' = [hist EXCEPT !.drain = drained]
          /\ clients' =
                [drain_others(clients, receiver) EXCEPT ![c] =
                    IF stream_ok
                    THEN [NoClient EXCEPT
                            !.st = "accepted",
                            !.cur = add_stream(receiver, tail),
                            !.sub = [n |-> tail, start |-> add_stream(receiver, tail),
                                     drain |-> drained, signal |-> hist.signal]]
                    ELSE [NoClient EXCEPT !.st = "refused"]]
    /\ UNCHANGED <<aslr_reference, patch_queue, builders, disk, os, time, demo, link, cmd>>

\* HotPatchServer::client_loop up to its loop: tungstenite::accept_hdr(..).unwrap().
\* io: the handshake completes ("ok"), the request is no WebSocket upgrade and
\* the callback never runs ("bad_request"), or the reply cannot be written after
\* the callback ran ("write_failed"); unwrap panics the thread on both failures.
client_handshake(c, query, io) ==
    /\ clients[c].st = "accepted"
    /\ aslr_reference' =
          IF io = "bad_request" THEN aslr_reference
          ELSE accept_hdr_callback(query, aslr_reference)
    /\ clients' = [clients EXCEPT ![c].st = IF io = "ok" THEN "open" ELSE "dead"]
    /\ UNCHANGED <<patch_queue, patch_receiver, clear_patches_rx, builders, disk, os,
                   time, hist, demo, link, cmd>>

\* The peer closes its end of connection c.
peer_close(c) ==
    /\ clients[c].st = "open"
    /\ ~clients[c].peer_gone
    /\ clients' = [clients EXCEPT ![c].peer_gone = TRUE]
    /\ UNCHANGED <<aslr_reference, patch_queue, patch_receiver, clear_patches_rx,
                   builders, disk, os, time, hist, demo, link, cmd>>

\* A receive that takes the newest message instead of the next one.
try_recv_newest(stream, queue) ==
    IF stream < Len(queue) THEN Some(queue[Len(queue)]) ELSE None

\* patch_channel.try_recv(): the next message of the stream, if any.
try_recv(stream, queue) ==
    IF stream < Len(queue) THEN Some(queue[stream + 1]) ELSE None

\* One turn of client_loop's loop that changes something: the socket cannot be
\* written and the loop ends, or a message is taken from the stream and sent.
\* A send to a peer that is gone fails and unwrap panics the thread.
client_loop(c, can_write) ==
    /\ clients[c].st = "open"
    /\ can_write \/ clients[c].peer_gone
    /\ IF ~can_write
       THEN clients' = [clients EXCEPT ![c].st = "closed"]
       ELSE LET got == try_recv(clients[c].cur, patch_queue)
            IN /\ got # None
               /\ clients' =
                     [clients EXCEPT
                        ![c].cur = @ + 1,
                        ![c].st = IF clients[c].peer_gone THEN "dead" ELSE @,
                        ![c].sent = IF clients[c].peer_gone THEN @
                                    ELSE Append(@, TextFrame(got[1]))]
    /\ UNCHANGED <<aslr_reference, patch_queue, patch_receiver, clear_patches_rx,
                   builders, disk, os, time, hist, demo, link, cmd>>

\* -------------------------------------------------------------- Builder
\* A drop that leaves the child alone.
drop_no_kill(self, killed) == killed

\* impl Drop for Builder: process.kill() is called on the child held in
\* running_binary; killed counts the calls per child.
drop_kill(self, killed) ==
    IF self.running_binary # None
    THEN [killed EXCEPT ![self.running_binary[1]] = @ + 1]
    ELSE killed

\* impl Drop for Builder: what the match on the result of kill logs.
drop_log(self, kill_ok) ==
    IF self.running_binary = None THEN "none"
    ELSE IF kill_ok THEN "debug: Killed executable successfully"
    ELSE "error: Couldn't kill running executable!"

\* An unwrap() or expect() on an Err panics the thread that runs the Builder:
\* the call does not return and the Builder is dropped while the stack unwinds.
Panicked(self) == [self EXCEPT !.alive = FALSE]

\* What the claims compare the state after a call with.
Snapshot(b) ==
    [builder |-> builders[b], queue |-> Len(patch_queue), thin |-> time.thin]

\* The guard with its negation lost.
thin_canceled_negation_lost(c, aslr) == is_wasm_or_wasi(c) /\ aslr = 0

\* build_thin's guard: if !self.ctx.is_wasm_or_wasi() && aslr_reference == 0
thin_canceled(c, aslr) == ~is_wasm_or_wasi(c) /\ aslr = 0

\* if self.ctx.triple.architecture == Wasm32 { jump_table.lib = "/pkg/" + file_name }
PublishedTable(c, t) ==
    IF c.architecture = "Wasm32"
    THEN [lib |-> [dir |-> "/pkg/", file |-> t]]
    ELSE JumpTableOf(t)

\* Where a thin build can fail: the rustc command cannot be built, because no
\* fat build has stored captured arguments and rustc_args.args[1..] is out of
\* range; the rustc process cannot be spawned or waited
\* for; the captured linker arguments cannot be read; the stub cannot be made
\* (non-wasm); the linker cannot be spawned; the linker exits with an error and
\* leaves no patch (logged, found by create_jump_table); the patch cannot be
\* parsed into a jump table; the patch cannot be copied to the site (Wasm32).
ThinSteps(c) ==
    {"none", "command", "spawn", "link_args", "linker_spawn", "linker_status",
     "jump_table"}
        \cup (IF is_wasm_or_wasi(c) THEN {} ELSE {"stub"})
        \cup (IF c.architecture = "Wasm32" THEN {"pkg_copy"} ELSE {})

\* The slice taken with skip(1): an empty argv gives an empty command line.
ThinStepsSkipOne(self, c) == ThinSteps(c) \ {"command"}

\* build_thin_command takes rustc_args.args[1..]: with the default (empty)
\* arguments of Builder::new the slice panics, with captured ones it does not.
ThinStepsOf(self, c) ==
    IF self.rustc_args = 0 THEN {"command"} ELSE ThinSteps(c) \ {"command"}

\* The symbols the module cache of the fat build knows.
CacheSymbols == {"main", "render"}

\* The symbols the objects of the patch leave undefined: at step "stub" the
\* edit has brought in one the fat build never saw.
PatchSymbols(fail) == IF fail = "stub" THEN {"main", "added"} ELSE {"main"}

\* create_undefined_symbol_stub: a stub object that defines every undefined
\* symbol of the patch at its address in the running process; an error when
\* the cache does not know one of them.
create_undefined_symbol_stub(cache, undefined) ==
    IF undefined \subseteq cache THEN Some(undefined) ELSE None

\* The error is dropped and an empty stub is used.
expect_ignored(result) == TRUE

\* Result::expect: the value of Ok, a panic on Err.  TRUE when it returns.
expect(result) == result # None

\* What one call of Builder::build_thin does in the current state when the
\* thin build fails at step fail: which steps run, the message, the try_send.
ThinRun(b, fail) ==
    LET self == builders[b]
        aslr == aslr_reference
        canceled == thin_canceled(ctx[b], aslr)
        t == time.thin + 1
        compiled == ~canceled /\ fail \notin {"command", "spawn"}
        resolved == expect(create_undefined_symbol_stub(CacheSymbols, PatchSymbols(fail)))
        failed == fail # "none" /\ (fail = "stub" => ~resolved)
        stubbed == compiled /\ ~is_wasm_or_wasi(ctx[b]) /\ fail # "link_args" /\ resolved
        linked == compiled /\ fail \notin {"link_args", "linker_spawn"}
                           /\ (is_wasm_or_wasi(ctx[b]) \/ resolved)
        patch == linked /\ fail # "linker_status"
        table == patch /\ fail # "jump_table"
        copied == table /\ ctx[b].architecture = "Wasm32" /\ fail # "pkg_copy"
    IN [canceled |-> canceled, aslr |-> aslr, time_start |-> t, compiled |-> compiled,
        stubbed |-> stubbed, linked |-> linked, patch |-> patch, copied |-> copied,
        msg |-> HotReloadMsg(self, PublishedTable(ctx[b], t)),
        sent |-> IF canceled \/ failed THEN "none"
                 ELSE IF QueueFull THEN "full" ELSE "ok"]

\* Builder::build_thin
build_thin(b, fail) ==
    /\ builders[b].alive
    /\ LET r == ThinRun(b, fail)
       IN IF r.canceled
          THEN /\ fail = "none"
               /\ UNCHANGED <<patch_queue, builders, os, time, hist>>
          ELSE /\ time.thin < MaxThin
               /\ fail \in ThinStepsOf(builders[b], ctx[b])
               /\ time' = [time EXCEPT !.thin = r.time_start]
               /\ patch_queue' = IF r.sent = "ok" THEN try_send(patch_queue, r.msg)
                                 ELSE patch_queue
               /\ builders' = [builders EXCEPT
                                 ![b] = IF r.sent = "ok" THEN @ ELSE Panicked(@)]
               /\ os' = [os EXCEPT
                           !.killed = IF r.sent = "ok" THEN @
                                      ELSE drop_kill(builders[b], @)]
               /\ hist' = [hist EXCEPT !.full = @ \/ r.sent = "full"]
    /\ UNCHANGED <<aslr_reference, patch_receiver, clear_patches_rx, clients, disk,
                   demo, link, cmd>>

\* Where a fat build can fail: the cargo process cannot be spawned; a capture
\* file is missing or malformed; the archive cannot be assembled; the linker
\* cannot be spawned; the linker exits with an error (logged only) and has
\* left the artifact path as it was, or has removed what was there; the
\* artifact cannot be copied or post-processed; the module cache cannot be
\* parsed from the artifact.
FatSteps ==
    {"none", "spawn", "capture", "archive", "linker_spawn", "linker_status",
     "linker_removed", "copy", "cache"}

\* What one call of Builder::build_fat does in the current state.  Artifacts,
\* captured arguments and caches are named by the number of the fat build they
\* come from (0: none yet).
FatRun(b, fail) ==
    LET self == builders[b]
        k == time.fat[b] + 1
        \* the linker writes the artifact unless the build stopped before it or
        \* it exits with an error
        exe == IF fail \in {"none", "copy", "cache"} THEN k
               ELSE IF fail = "linker_removed" THEN 0
               ELSE disk.exe[b]
        \* write_executable copies what is at the artifact path, and panics when
        \* nothing is there
        stale == fail = "linker_status" /\ disk.exe[b] # 0
        bundled == fail \in {"none", "cache"} \/ stale
        returned == fail = "none" \/ stale
    IN [build |-> k, exe |-> exe, bundled |-> bundled, returned |-> returned,
        self |-> [self EXCEPT !.rustc_args = IF bundled THEN k ELSE @,
                              !.cache = IF returned THEN exe ELSE @]]

\* Builder::build_fat
build_fat(b, fail) ==
    /\ builders[b].alive
    /\ time.fat[b] < MaxFat
    /\ fail \in FatSteps
    /\ LET r == FatRun(b, fail)
       IN /\ time' = [time EXCEPT !.fat[b] = r.build]
          /\ disk' = [disk EXCEPT !.exe[b] = r.exe,
                                  !.bundle[b] = IF r.bundled THEN r.exe ELSE @]
          /\ builders' = [builders EXCEPT
                            ![b] = IF r.returned THEN r.self ELSE Panicked(r.self)]
          /\ os' = [os EXCEPT
                      !.killed = IF r.returned THEN @ ELSE drop_kill(builders[b], @)]
    /\ UNCHANGED <<aslr_reference, patch_queue, patch_receiver, clear_patches_rx,
                   clients, hist, demo, link, cmd>>

\* Builder::run_if_native: the OS gives the child the next unused pid.
run_if_native(b, spawn_ok) ==
    /\ builders[b].alive
    /\ LET self == builders[b]
           pid == os.spawned + 1
       IN IF ctx[b].bin = None
          THEN /\ spawn_ok
               /\ UNCHANGED <<builders, os, hist>>
          ELSE /\ os.spawned < MaxPid
               /\ builders' = [builders EXCEPT
                                 ![b] = IF spawn_ok
                                        THEN [@ EXCEPT !.pid = Some(pid),
                                                       !.running_binary = Some(pid)]
                                        ELSE Panicked(@)]
               /\ os' = IF spawn_ok THEN [os EXCEPT !.spawned = pid]
                        ELSE [os EXCEPT !.killed = drop_kill(self, @)]
               /\ hist' = IF spawn_ok THEN [hist EXCEPT !.spawn[b] = Some(pid)] ELSE hist
    /\ UNCHANGED <<aslr_reference, patch_queue, patch_receiver, clear_patches_rx,
                   clients, disk, time, demo, link, cmd>>

\* The driver exits and the Builder is dropped; kill_ok is what the OS
\* answers to the kill.  Both arms of the match only log.
drop(b, kill_ok) ==
    /\ builders[b].alive
    /\ builders[b].running_binary = None => kill_ok
    /\ builders' = [builders EXCEPT ![b].alive = FALSE]
    /\ os' = [os EXCEPT !.killed = drop_kill(builders[b], @)]
    /\ UNCHANGED <<aslr_reference, patch_queue, patch_receiver, clear_patches_rx,
                   clients, disk, time, hist, demo, link, cmd>>

\* ---------------------------------------------------------- demo client
\* The messages the devtools connection can hand to the callback: the
\* HotReload messages a Builder can have published, HotReload messages without
\* a jump table, and the other variants of DevserverMsg.
DevserverMsgs ==
    {HotReloadMsg([pid |-> p], JumpTableOf(t)) :
        p \in {None} \cup {Some(q) : q \in Pids}, t \in 1..MaxThin}
        \cup {[HotReloadMsg([pid |-> p], JumpTableOf(1)) EXCEPT !.jump_table = None] :
                p \in {None} \cup {Some(q) : q \in Pids}}
        \cup {[kind |-> k] :
                k \in {"HotPatchStart", "FullReloadStart", "FullReloadFailed",
                       "FullReloadCommand", "Shutdown"}}

\* The callback without its test of for_pid.
callback_any_pid(msg, process_id) ==
    IF msg.kind = "HotReload" /\ msg.jump_table # None THEN msg.jump_table ELSE None

\* The closure given to connect_at: the jump table it passes to
\* subsecond::apply_patch, or None when it does not call it.
callback(msg, process_id) ==
    IF msg.kind = "HotReload"
    THEN IF msg.jump_table # None
         THEN IF msg.for_pid = Some(process_id) THEN msg.jump_table ELSE None
         ELSE None
    ELSE None

\* The devtools thread calls the closure with a message it received;
\* apply_patch(..).unwrap() panics that thread when the patch cannot be applied.
demo_receive(msg, apply_ok) ==
    /\ demo.alive
    /\ LET jumptable == callback(msg, demo.pid)
       IN /\ jumptable = None => apply_ok
          /\ demo' = [demo EXCEPT
                        !.msg = msg,
                        !.called = jumptable # None,
                        !.applied = IF jumptable # None THEN @ \cup {msg} ELSE @,
                        !.alive = apply_ok]
    /\ UNCHANGED <<aslr_reference, patch_queue, patch_receiver, clear_patches_rx,
                   clients, builders, disk, os, time, ev, hs, hist, link, cmd>>

\* -------------------------------------------------- build_thin_command
\* std::process::Command keeps the changes to the environment of the child:
\* clear, whether the parent's environment is dropped, and vars, a value or a
\* removal (None) per key.
\* Command::env_clear
env_clear(e) == [clear |-> TRUE, vars |-> {}]

\* Command::env_remove: with clear set the key's entry is dropped, else a
\* removal is recorded.
env_remove(e, key) ==
    [e EXCEPT !.vars = {p \in @ : p.k # key}
                          \cup (IF e.clear THEN {} ELSE {[k |-> key, v |-> None]})]

\* Command::env
env(e, key, val) ==
    [e EXCEPT !.vars = {p \in @ : p.k # key} \cup {[k |-> key, v |-> Some(val)]}]

\* Command::envs: env for each pair, in order.
RECURSIVE envs(_, _)
envs(e, pairs) ==
    IF pairs = <<>> THEN e
    ELSE envs(env(e, Head(pairs)[1], Head(pairs)[2]), Tail(pairs))

\* Triple::to_string, for the targets of the model.
triple_to_string(c) ==
    CASE c.operating_system = "Linux" -> "x86_64-unknown-linux-gnu"
      [] c.operating_system = "Darwin" -> "aarch64-apple-darwin"
      [] c.operating_system = "Windows" -> "x86_64-pc-windows-msvc"
      [] OTHER -> "wasm32-unknown-unknown"

\* The environment changes build_thin_command makes, in its order: the
\* captured variables are applied last.
thin_command_env(c, rustc_args) ==
    LET cleared == env_clear([clear |-> FALSE, vars |-> {}])
        removed == env_remove(env_remove(env_remove(cleared, "RUSTC_WORKSPACE_WRAPPER"),
                                         "RUSTC_WRAPPER"), "DX_RUSTC")
        kept == env(env(env(env(removed, "DX_LINK", "1"),
                            "DX_LINK_ARGS_FILE", "link_args_file"),
                        "DX_LINK_ERR_FILE", "link_err_file"),
                    "DX_LINK_TRIPLE", triple_to_string(c))
    IN envs(kept, rustc_args.envs)

\* The arguments build_thin_command gives rustc.
thin_command_args(c, rustc_args) ==
    Tail(rustc_args.args) \o <<"-Clinker=dx">>
        \o (IF is_wasm_or_wasi(c) THEN <<"-Crelocation-model=pic">> ELSE <<>>)

\* build_thin_command: rustc_args.args[1..] panics on an empty argv.
build_thin_command ==
    /\ cmd.st = "captured"
    /\ cmd' = IF cmd.rustc_args.args = <<>>
              THEN [cmd EXCEPT !.st = "panicked"]
              ELSE [cmd EXCEPT !.st = "built",
                               !.args = thin_command_args(cmd.ctx, cmd.rustc_args),
                               !.env = thin_command_env(cmd.ctx, cmd.rustc_args)]
    /\ UNCHANGED <<aslr_reference, patch_queue, patch_receiver, clear_patches_rx,
                   clients, builders, disk, os, time, ev, hs, hist, demo, link>>

\* ----------------------------------------------------------- write_patch
\* The strings of a thin link in the order of str::cmp (byte order).
StrOrder ==
    <<"--export", "-L", "-lc", "-o", "app.rcgu.o", "cc", "core.rcgu.o", "libz.so",
      "main.o", "stub.o">>

Ord(str) == CHOOSE i \in 1..Len(StrOrder) : StrOrder[i] = str

\* Iterator order kept as it is.
unsorted(v) == v

RECURSIVE sorted_insert(_, _)
sorted_insert(v, x) ==
    IF v = <<>> THEN <<x>>
    ELSE IF Ord(x) < Ord(Head(v)) THEN <<x>> \o v
    ELSE <<Head(v)>> \o sorted_insert(Tail(v), x)

\* Itertools::sorted: a stable sort by Ord.
RECURSIVE sorted(_)
sorted(v) ==
    IF v = <<>> THEN <<>> ELSE sorted_insert(sorted(SubSeq(v, 1, Len(v) - 1)), v[Len(v)])

\* Vec::push
push(v, x) == Append(v, x)

\* The object files of the thin link: the .rcgu.o arguments, sorted.
object_files(args) == sorted(SelectSeq(args, LAMBDA arg : ends_with(arg, ".rcgu.o")))

\* The dylibs of the fat link, taken from the bundle's frameworks directory.
dylibs(link_args) ==
    LET so == SelectSeq(link_args, LAMBDA arg : ends_with(arg, ".so"))
    IN [i \in 1..Len(so) |-> "frameworks/" \o so[i]]

\* A loop of thin_link_args: for every argument equal to one of keys, push
\* it and the argument after it (an index out of range panics: None); push
\* every argument of singles.
RECURSIVE preserve(_, _, _, _, _)
preserve(original_args, idx, keys, singles, acc) ==
    IF idx > Len(original_args) THEN acc
    ELSE LET arg == original_args[idx]
             pair == IF arg \in keys THEN <<arg, original_args[idx + 1]>> ELSE <<>>
             single == IF arg \in singles THEN <<arg>> ELSE <<>>
         IN IF arg \in keys /\ idx = Len(original_args) THEN None
            ELSE preserve(original_args, idx + 1, keys, singles, acc \o pair \o single)

\* extract_value: the argument after the first arg, if arg is there.
extract_value(original_args, arg, acc) ==
    IF acc = None THEN None
    ELSE IF \E i \in 1..Len(original_args) : original_args[i] = arg
    THEN LET i == Min({j \in 1..Len(original_args) : original_args[j] = arg})
         IN IF i = Len(original_args) THEN None
            ELSE acc \o <<arg, original_args[i + 1]>>
    ELSE acc

\* thin_link_args: None where it panics.  Of the model's strings, -lc is the
\* one that starts with -l or -m.
thin_link_args(flavor, original_args) ==
    LET out_args ==
            CASE flavor = "WasmLld" ->
                    preserve(original_args, 1, {"--export"}, {},
                             <<"--fatal-warnings", "--verbose", "--import-memory",
                               "--import-table", "--growable-table", "--export", "main",
                               "--allow-undefined", "--no-demangle", "--no-entry", "--pie",
                               "--experimental-pic">>)
              [] flavor = "Darwin" ->
                    preserve(original_args, 1, {"-framework", "-arch", "-L"}, {"-lc"},
                             <<"-Wl,-dylib">>)
              [] flavor = "Gnu" ->
                    preserve(original_args, 1, {"-L"}, {"-lc"},
                             <<"-shared", "-Wl,--eh-frame-hdr", "-Wl,-z,noexecstack",
                               "-Wl,-z,relro,-z,now", "-nodefaultlibs", "-Wl,-Bdynamic">>)
              [] flavor = "Msvc" ->
                    <<"shlwapi.lib", "kernel32.lib", "advapi32.lib", "ntdll.lib",
                      "userenv.lib", "ws2_32.lib", "dbghelp.lib", "/defaultlib:msvcrt",
                      "/DLL", "/DEBUG", "/PDBALTPATH:%_PDB%", "/EXPORT:main",
                      "/HIGHENTROPYVA:NO">>
              [] OTHER -> None
    IN extract_value(original_args, "-isysroot",
                     extract_value(original_args, "-target", out_args))

\* The output directive of the thin link.
out_arg(c) ==
    IF c.operating_system = "Windows" THEN <<"/OUT:patch">> ELSE <<"-o", "patch">>

\* What write_patch can meet outside its arguments: the stub's symbols do not
\* resolve (expect panics); the linker cannot be spawned (unwrap panics).
PatchIo == {"ok", "stub", "linker_spawn"}

\* write_patch over the argv in link_args_file.  object_files is set once the
\* list is complete, out_args once the linker was run with it.
write_patch(io) ==
    /\ cmd.st = "compiled"
    /\ LET args == cmd.link_args_file
           native == ~is_wasm_or_wasi(cmd.ctx)
           objs == IF native THEN push(object_files(args), "stub.o") ELSE object_files(args)
           libs == IF native THEN dylibs(cmd.rustc_args.link_args) ELSE <<>>
           thin == thin_link_args(linker_flavor(cmd.ctx), args)
           dash_o == {i \in 1..Len(args) : args[i] = "-o"}
       IN cmd' =
            IF native /\ io = "stub" THEN [cmd EXCEPT !.st = "panicked"]
            ELSE IF thin = None \/ io = "linker_spawn"
            THEN [cmd EXCEPT !.st = "panicked", !.object_files = objs]
            ELSE [cmd EXCEPT !.st = IF dash_o # {} /\ Min(dash_o \cup {Len(args)}) = Len(args)
                                    THEN "panicked" ELSE "patched",
                             !.object_files = objs,
                             !.out_args = objs \o libs \o thin \o out_arg(cmd.ctx)]
    /\ UNCHANGED <<aslr_reference, patch_queue, patch_receiver, clear_patches_rx,
                   clients, builders, disk, os, time, ev, hs, hist, demo, link>>

\* ------------------------------------------------------------ fat_link
\* What the file system and the OS can answer in fat_link behind the archive:
\* the linker cannot be spawned (output().unwrap() panics); the rlibs list
\* cannot be written (the error is dropped).
LinkIo == {"ok", "linker_spawn", "list_write"}

\* fat_link from its first line to the output file, the spawn of the linker
\* and its last statement, the write of the rlibs list: args is what the
\* linker is run with.  A panic leaves the archive it wrote before on disk.
fat_link(io) ==
    /\ link.st = "captured"
    /\ LET rlibs == FilterRlibs(link.link_args)
           made == fat_archive(link.link_args, link.rlib_files, link.ar_files,
                               link.list_files, link.debug_assertions)
       IN IF made = None
          THEN link' = [link EXCEPT !.st = "panicked", !.runs = @ + 1]
          ELSE LET spliced == splice(link.link_args, linker_flavor(link.ctx),
                                     made[1].archive_has_contents, out_ar_path(rlibs),
                                     made[1].compiler_rlibs)
                   args == IF spliced = None THEN None
                           ELSE finish_args(link.ctx, spliced[1])
               IN IF args = None \/ io = "linker_spawn"
                  THEN link' = [link EXCEPT !.st = "panicked", !.runs = @ + 1,
                                            !.ar_files = made[1].ar_files]
                  ELSE link' = [link EXCEPT
                                  !.st = "linked",
                                  !.flavor = linker_flavor(link.ctx),
                                  !.runs = @ + 1,
                                  !.ar_files = made[1].ar_files,
                                  !.list_files =
                                      IF io = "list_write" THEN @
                                      ELSE WriteFile(@, [key |-> hash_id(rlibs),
                                                         lines |-> made[1].compiler_rlibs]),
                                  !.args = args[1],
                                  !.archive =
                                      Some([path |-> out_ar_path(rlibs),
                                            written |-> made[1].written,
                                            listed |-> FileAt(link.list_files,
                                                              hash_id(rlibs)) # None,
                                            archive_has_contents |->
                                                made[1].archive_has_contents,
                                            members |-> made[1].members]),
                                  !.compiler_rlibs = made[1].compiler_rlibs]
    /\ UNCHANGED <<aslr_reference, patch_queue, patch_receiver, clear_patches_rx,
                   clients, builders, disk, os, time, ev, hs, hist, demo, cmd>>

\* The next fat build of the same sources: rustc hands the linker the same
\* argv, the files of the build before are on disk.
capture_again ==
    /\ link.st = "linked"
    /\ link.runs < MaxLinks
    /\ link' = [link EXCEPT !.st = "captured"]
    /\ UNCHANGED <<aslr_reference, patch_queue, patch_receiver, clear_patches_rx,
                   clients, builders, disk, os, time, ev, hs, hist, demo, cmd>>

\* A fat link of an argv that already holds the whole-archive span: the argv
\* the link before produced, behind the driver's own first argument.
capture_spliced ==
    /\ link.st = "linked"
    /\ link.runs < MaxLinks
    /\ link' = [link EXCEPT !.st = "captured",
                            !.link_args = <<link.link_args[1]>> \o link.args]
    /\ UNCHANGED <<aslr_reference, patch_queue, patch_receiver, clear_patches_rx,
                   clients, builders, disk, os, time, ev, hs, hist, demo, cmd>>

\* ------------------------------------------------------- specifications
\* The handshakes the whole-system specification draws from: no query, a
\* query without the parameter, and the parameter with a value that is zero,
\* non-zero or no number.
SomeQueries ==
    {None, Some(<<[key |-> "build_id", val |-> <<"7">>]>>)}
        \cup {Some(<<[key |-> "aslr_reference", val |-> v]>>) : v \in {<<"0">>, <<"7">>, <<"x">>}}

HandshakeIo == {"ok", "bad_request", "write_failed"}

Transport ==
    \/ send_clear_patches
    \/ \E c \in Clients, stream_ok \in BOOLEAN : run(c, stream_ok)
    \/ \E c \in Clients : peer_close(c)
    \/ \E c \in Clients, can_write \in BOOLEAN : client_loop(c, can_write)

\* The last Builder call, as the observing specifications record it in ev
\* (evaluated in the state the call starts from).
ThinEvent(b, fail) ==
    [b |-> b, op |-> "thin", fail |-> fail, run |-> ThinRun(b, fail), pre |-> Snapshot(b)]

FatEvent(b, fail) ==
    [b |-> b, op |-> "fat", fail |-> fail, run |-> FatRun(b, fail), pre |-> Snapshot(b)]

RunEvent(b, spawn_ok) ==
    [b |-> b, op |-> "run", fail |-> IF spawn_ok THEN "none" ELSE "spawn",
     run |-> [none |-> TRUE], pre |-> Snapshot(b)]

DropEvent(b, kill_ok) ==
    [b |-> b, op |-> "drop", fail |-> IF kill_ok THEN "none" ELSE "kill",
     run |-> [log |-> drop_log(builders[b], kill_ok)], pre |-> Snapshot(b)]

\* The hot-patch server, its clients and the Builder that publishes to it,
\* from the moment its first fat build has returned.
Next ==
    \/ Transport /\ UNCHANGED <<ev, hs>>
    \/ \E c \in Clients, query \in SomeQueries, io \in HandshakeIo :
          client_handshake(c, query, io) /\ UNCHANGED <<ev, hs>>
    \/ \E b \in Builders : \E fail \in ThinSteps(ctx[b]) :
          build_thin(b, fail) /\ UNCHANGED <<ev, hs>>
    \/ \E b \in Builders, spawn_ok \in BOOLEAN :
          run_if_native(b, spawn_ok) /\ UNCHANGED <<ev, hs>>
    \/ \E b \in Builders, kill_ok \in BOOLEAN : drop(b, kill_ok) /\ UNCHANGED <<ev, hs>>

Spec == InitReady /\ [][Next]_vars

\* The Builder, every call of it observed, with the part of the server that
\* acts on what it reads: connections, handshakes and ClearPatches signals.
NextBuilder ==
    \/ send_clear_patches /\ UNCHANGED <<ev, hs>>
    \/ \E c \in Clients, stream_ok \in BOOLEAN : run(c, stream_ok) /\ UNCHANGED <<ev, hs>>
    \/ \E c \in Clients, query \in SomeQueries, io \in HandshakeIo :
          client_handshake(c, query, io) /\ UNCHANGED <<ev, hs>>
    \/ \E b \in Builders : \E fail \in ThinSteps(ctx[b]) :
          build_thin(b, fail) /\ ev' = ThinEvent(b, fail) /\ UNCHANGED hs
    \/ \E b \in Builders, fail \in FatSteps :
          build_fat(b, fail) /\ ev' = FatEvent(b, fail) /\ UNCHANGED hs
    \/ \E b \in Builders, spawn_ok \in BOOLEAN :
          run_if_native(b, spawn_ok) /\ ev' = RunEvent(b, spawn_ok) /\ UNCHANGED hs
    \/ \E b \in Builders, kill_ok \in BOOLEAN :
          drop(b, kill_ok) /\ ev' = DropEvent(b, kill_ok) /\ UNCHANGED hs

SpecBuilder == Init /\ [][NextBuilder]_vars

\* The handshake as a function of its inputs: hs holds the query of the
\* connection being accepted, how the handshake ends and the value the atomic
\* holds when it starts (a value an earlier handshake can have stored).
InitHandshake ==
    /\ hs \in [c : {1}, query : Queries, io : HandshakeIo, pre : {0, 7, 70}]
    /\ aslr_reference = hs.pre
    /\ patch_queue = <<>>
    /\ patch_receiver = 0
    /\ clear_patches_rx = 0
    /\ clients = [c \in Clients |-> NoClient]
    /\ builders = [b \in Builders |-> NotBuilt]
    /\ disk = [exe |-> [b \in Builders |-> 0], bundle |-> [b \in Builders |-> 0]]
    /\ os = [spawned |-> 0, killed |-> [p \in Pids |-> 0]]
    /\ time = [thin |-> 0, fat |-> [b \in Builders |-> 0]]
    /\ ev = NoEvent
    /\ hist = [signal |-> -1, drain |-> -1, spawn |-> [b \in Builders |-> None],
               full |-> FALSE]
    /\ demo = NoDemo
    /\ link = NoLink
    /\ cmd = NoCmd

NextHandshake ==
    \/ run(hs.c, TRUE) /\ UNCHANGED <<ev, hs>>
    \/ client_handshake(hs.c, hs.query, hs.io) /\ UNCHANGED <<ev, hs>>

SpecHandshake == InitHandshake /\ [][NextHandshake]_vars

\* The driver run for both targets at once, after the first fat build of
\* each: two Builders publish to the one queue, the native one once a
\* handshake has stored an ASLR reference.
InitPair ==
    InitWith([b \in Builders |-> IF b \in {"server", "front"} THEN ReadyBuilder
                                 ELSE NotBuilt],
             [b \in Builders |-> IF b \in {"server", "front"} THEN 1 ELSE 0])

NextPair ==
    \/ \E c \in Clients : run(c, TRUE) /\ UNCHANGED <<ev, hs>>
    \/ \E c \in Clients :
          client_handshake(c, Some(<<[key |-> "aslr_reference", val |-> <<"7">>]>>), "ok")
              /\ UNCHANGED <<ev, hs>>
    \/ \E c \in Clients : client_loop(c, TRUE) /\ UNCHANGED <<ev, hs>>
    \/ \E b \in Builders : build_thin(b, "none") /\ UNCHANGED <<ev, hs>>
    \/ \E b \in Builders, spawn_ok \in BOOLEAN :
          run_if_native(b, spawn_ok) /\ UNCHANGED <<ev, hs>>

SpecPair == InitPair /\ [][NextPair]_vars

\* The fan-out of the messages of both Builders to the subscribers, with all
\* that ends a subscription: a failed handshake, a peer that closes, a socket
\* that cannot be written.
NextFanOut ==
    \/ send_clear_patches /\ UNCHANGED <<ev, hs>>
    \/ \E c \in Clients : run(c, TRUE) /\ UNCHANGED <<ev, hs>>
    \/ \E c \in Clients, io \in {"ok", "write_failed"} :
          client_handshake(c, Some(<<[key |-> "aslr_reference", val |-> <<"7">>]>>), io)
              /\ UNCHANGED <<ev, hs>>
    \/ \E c \in Clients : peer_close(c) /\ UNCHANGED <<ev, hs>>
    \/ \E c \in Clients, can_write \in BOOLEAN :
          client_loop(c, can_write) /\ UNCHANGED <<ev, hs>>
    \/ \E b \in Builders : build_thin(b, "none") /\ UNCHANGED <<ev, hs>>

\* A client thread polls its stream every 50 ms for as long as it lives: a
\* message that waits in the stream of a live client thread is taken.
SpecFanOut ==
    /\ InitPair
    /\ [][NextFanOut]_vars
    /\ \A c \in Clients : WF_vars(client_loop(c, TRUE) /\ UNCHANGED <<ev, hs>>)

\* The demo client as a process of its own: its pid is whatever the OS gave
\* it, the messages are whatever the connection delivers.
InitDemo ==
    /\ demo \in {[NoDemo EXCEPT !.pid = p] : p \in Pids}
    /\ aslr_reference = 0
    /\ patch_queue = <<>>
    /\ patch_receiver = 0
    /\ clear_patches_rx = 0
    /\ clients = [c \in Clients |-> NoClient]
    /\ builders = [b \in Builders |-> NotBuilt]
    /\ disk = [exe |-> [b \in Builders |-> 0], bundle |-> [b \in Builders |-> 0]]
    /\ os = [spawned |-> 0, killed |-> [p \in Pids |-> 0]]
    /\ time = [thin |-> 0, fat |-> [b \in Builders |-> 0]]
    /\ ev = NoEvent
    /\ hs = NoHandshake
    /\ hist = [signal |-> -1, drain |-> -1, spawn |-> [b \in Builders |-> None],
               full |-> FALSE]
    /\ link = NoLink
    /\ cmd = NoCmd

NextDemo == \E msg \in DevserverMsgs, apply_ok \in BOOLEAN : demo_receive(msg, apply_ok)

SpecDemo == InitDemo /\ [][NextDemo]_vars

\* The members an rlib on disk can have: a name, a size, and whether the
\* archive reader can read the entry at all.
Entries ==
    [ok : {TRUE}, name : {"lib.rmeta", "app.rcgu.o", "app.obj", "libz.so"}, size : {0, 8}]
        \cup {[ok |-> FALSE, name |-> "lib.rmeta", size |-> 0]}

RECURSIVE EntriesUpTo(_)
EntriesUpTo(n) ==
    IF n = 0 THEN {<<>>}
    ELSE LET S == EntriesUpTo(n - 1)
         IN S \cup {Append(q, e) : q \in {x \in S : Len(x) = n - 1}, e \in Entries}

\* The targets a Context is made for.
Triples ==
    {[architecture |-> "X86_64", operating_system |-> "Linux", environment |-> "Gnu"],
     [architecture |-> "Wasm32", operating_system |-> "Unknown", environment |-> "Unknown"],
     [architecture |-> "Aarch64", operating_system |-> "Darwin", environment |-> "Unknown"],
     [architecture |-> "X86_64", operating_system |-> "Windows", environment |-> "Msvc"]}

\* A fat link on its own: l is what rustc captured and what is on disk.
InitLink(l) ==
    /\ link = l
    /\ cmd = NoCmd
    /\ aslr_reference = 0
    /\ patch_queue = <<>>
    /\ patch_receiver = 0
    /\ clear_patches_rx = 0
    /\ clients = [c \in Clients |-> NoClient]
    /\ builders = [b \in Builders |-> NotBuilt]
    /\ disk = [exe |-> [b \in Builders |-> 0], bundle |-> [b \in Builders |-> 0]]
    /\ os = [spawned |-> 0, killed |-> [p \in Pids |-> 0]]
    /\ time = [thin |-> 0, fat |-> [b \in Builders |-> 0]]
    /\ ev = NoEvent
    /\ hs = NoHandshake
    /\ hist = [signal |-> -1, drain |-> -1, spawn |-> [b \in Builders |-> None],
               full |-> FALSE]
    /\ demo = NoDemo

\* The archive stage: one captured argv; the rlibs on disk are whatever cargo
\* and the crates' build scripts left there, inside the working directory or
\* outside it.
InitArchive ==
    \E in_app, in_std, debug \in BOOLEAN :
        \E contents \in {None} \cup {Some(q) : q \in EntriesUpTo(MaxMembers)} :
            InitLink([NoLink EXCEPT
                !.st = "captured",
                !.link_args = <<Arg("cc"), Arg("libapp.rlib"), Arg("main.o"),
                                Arg("libstd.rlib")>>,
                !.ctx = [architecture |-> "X86_64", operating_system |-> "Linux",
                         environment |-> "Gnu"],
                !.rlib_files =
                    [r \in {"libapp.rlib", "libstd.rlib"} |->
                        IF r = "libapp.rlib"
                        THEN [in_working_dir |-> in_app, contents |-> contents]
                        ELSE [in_working_dir |-> in_std,
                              contents |-> Some(<<[ok |-> TRUE, name |-> "app.obj",
                                                   size |-> 8]>>)]],
                !.debug_assertions = debug])

NextArchive == (\E io \in LinkIo : fat_link(io)) \/ capture_again

SpecArchive == InitArchive /\ [][NextArchive]_vars

\* What rustc can hand the linker: objects, rlibs and a flag, in any order.
ArgStrings == {"main.o", "app.rcgu.o", "libapp.rlib", "libsys.rlib", "libstd.rlib", "-lc"}

RECURSIVE ArgsUpTo(_)
ArgsUpTo(n) ==
    IF n = 0 THEN {<<>>}
    ELSE LET S == ArgsUpTo(n - 1)
         IN S \cup {Append(q, Arg(a)) : q \in {x \in S : Len(x) = n - 1}, a \in ArgStrings}

\* The rlibs of a build: the crate's own (metadata and an object), one of a
\* -sys crate (an object and a shared library) and, outside the working
\* directory, one of the toolchain.
StdRlibFiles ==
    [r \in {"libapp.rlib", "libsys.rlib", "libstd.rlib"} |->
        CASE r = "libapp.rlib" ->
                [in_working_dir |-> TRUE,
                 contents |-> Some(<<[ok |-> TRUE, name |-> "lib.rmeta", size |-> 8],
                                     [ok |-> TRUE, name |-> "app.rcgu.o", size |-> 8]>>)]
          [] r = "libsys.rlib" ->
                [in_working_dir |-> TRUE,
                 contents |-> Some(<<[ok |-> TRUE, name |-> "app.rcgu.o", size |-> 8],
                                     [ok |-> TRUE, name |-> "libz.so", size |-> 8]>>)]
          [] OTHER ->
                [in_working_dir |-> FALSE,
                 contents |-> Some(<<[ok |-> TRUE, name |-> "app.rcgu.o", size |-> 8]>>)]]

\* The argv rustc hands the linker: the linker's name, on wasm the flavor
\* of rust-lld, then the arguments.
Captured(triple, body) ==
    <<Arg("cc")>>
        \o (IF is_wasm_or_wasi(triple) THEN <<Arg("-flavor"), Arg("wasm")>> ELSE <<>>)
        \o body

\* The argv rewriting: every captured argv of up to MaxArgs arguments behind
\* the linker's name, every target, debug and release driver.
InitFatArgs ==
    \E body \in ArgsUpTo(MaxArgs), triple \in Triples, debug \in BOOLEAN :
        InitLink([NoLink EXCEPT
            !.st = "captured",
            !.link_args = Captured(triple, body),
            !.ctx = triple,
            !.rlib_files = StdRlibFiles,
            !.debug_assertions = debug])

NextFatArgs == (\E io \in LinkIo : fat_link(io)) \/ capture_again \/ capture_spliced

SpecFatArgs == InitFatArgs /\ [][NextFatArgs]_vars

\* Captured arguments that name an output, in any number and order, with and
\* without the flavor pair on wasm.
OutStrings == {"-o", "--output", "/OUT:deps/app", "deps/app", "main.o"}

RECURSIVE OutArgsUpTo(_)
OutArgsUpTo(n) ==
    IF n = 0 THEN {<<>>}
    ELSE LET S == OutArgsUpTo(n - 1)
         IN S \cup {Append(q, Arg(a)) : q \in {x \in S : Len(x) = n - 1}, a \in OutStrings}

InitFatOut ==
    \E body \in OutArgsUpTo(MaxArgs), triple \in Triples, flavored \in BOOLEAN :
        InitLink([NoLink EXCEPT
            !.st = "captured",
            !.link_args = IF flavored THEN Captured(triple, body)
                          ELSE <<Arg("cc")>> \o body,
            !.ctx = triple,
            !.rlib_files = StdRlibFiles,
            !.debug_assertions = TRUE])

\* The triples linker_flavor is asked about: every combination of the
\* architectures, operating systems and environments below.
AllTriples ==
    [architecture : {"X86_64", "Aarch64", "Wasm32", "Wasm64"},
     operating_system : {"Linux", "Darwin", "MacOSX", "Ios", "Windows", "Wasi", "Unknown"},
     environment : {"Gnu", "Gnuabi64", "Gnueabi", "Gnueabihf", "GnuLlvm", "Msvc", "Musl",
                    "Unknown"}]

\* One fat link per triple, of the same small argv.
InitFlavor ==
    \E triple \in AllTriples :
        InitLink([NoLink EXCEPT
            !.st = "captured",
            !.link_args = Captured(triple, <<Arg("main.o"), Arg("libapp.rlib")>>),
            !.ctx = triple,
            !.rlib_files = StdRlibFiles,
            !.debug_assertions = TRUE])

NextFlavor == \E io \in LinkIo : fat_link(io)

SpecFlavor == InitFlavor /\ [][NextFlavor]_vars

NextFatOut == (\E io \in LinkIo : fat_link(io)) \/ capture_again

SpecFatOut == InitFatOut /\ [][NextFatOut]_vars

\* The variables a captured environment is drawn from, and their values.
EnvKeys ==
    {"RUSTC_WRAPPER", "RUSTC_WORKSPACE_WRAPPER", "DX_RUSTC", "DX_LINK", "DX_LINK_ARGS_FILE",
     "DX_LINK_ERR_FILE", "DX_LINK_TRIPLE", "PATH"}

RECURSIVE EnvsUpTo(_)
EnvsUpTo(n) ==
    IF n = 0 THEN {<<>>}
    ELSE LET S == EnvsUpTo(n - 1)
         IN S \cup {Append(q, <<k, v>>) : q \in {x \in S : Len(x) = n - 1},
                                           k \in EnvKeys, v \in {"dx", "captured"}}

RECURSIVE RustcArgvUpTo(_)
RustcArgvUpTo(n) ==
    IF n = 0 THEN {<<>>}
    ELSE LET S == RustcArgvUpTo(n - 1)
         IN S \cup {Append(q, a) : q \in {x \in S : Len(x) = n - 1},
                                   a \in {"rustc", "--crate-name", "main.rs"}}

\* The thin compile command as a function of the captured invocation and the
\* target.
InitThinCommand ==
    /\ \E args \in RustcArgvUpTo(MaxRustcArgs), es \in EnvsUpTo(MaxEnvs), triple \in Triples :
          cmd = [NoCmd EXCEPT !.st = "captured",
                              !.rustc_args = [args |-> args, envs |-> es,
                                              link_args |-> <<>>],
                              !.ctx = triple]
    /\ link = NoLink
    /\ aslr_reference = 0
    /\ patch_queue = <<>>
    /\ patch_receiver = 0
    /\ clear_patches_rx = 0
    /\ clients = [c \in Clients |-> NoClient]
    /\ builders = [b \in Builders |-> NotBuilt]
    /\ disk = [exe |-> [b \in Builders |-> 0], bundle |-> [b \in Builders |-> 0]]
    /\ os = [spawned |-> 0, killed |-> [p \in Pids |-> 0]]
    /\ time = [thin |-> 0, fat |-> [b \in Builders |-> 0]]
    /\ ev = NoEvent
    /\ hs = NoHandshake
    /\ hist = [signal |-> -1, drain |-> -1, spawn |-> [b \in Builders |-> None],
               full |-> FALSE]
    /\ demo = NoDemo

NextThinCommand == build_thin_command

SpecThinCommand == InitThinCommand /\ [][NextThinCommand]_vars

\* The arguments a thin argv is drawn from.
ThinArgStrings ==
    {"cc", "app.rcgu.o", "core.rcgu.o", "main.o", "-L", "-lc", "-o", "--export"}

MaxThinArgs == 3

RECURSIVE ThinArgsUpTo(_)
ThinArgsUpTo(n) ==
    IF n = 0 THEN {<<>>}
    ELSE LET S == ThinArgsUpTo(n - 1)
         IN S \cup {Append(q, a) : q \in {x \in S : Len(x) = n - 1}, a \in ThinArgStrings}

\* The thin link as a function of the argv the thin compile captured, the
\* fat link's argv and the target.
InitThinLink ==
    /\ \E args \in ThinArgsUpTo(MaxThinArgs), triple \in Triples,
          fat \in {<<"cc", "main.o">>, <<"cc", "libz.so">>} :
          cmd = [NoCmd EXCEPT !.st = "compiled",
                              !.rustc_args = [args |-> <<>>, envs |-> <<>>, link_args |-> fat],
                              !.ctx = triple,
                              !.link_args_file = args]
    /\ link = NoLink
    /\ aslr_reference = 0
    /\ patch_queue = <<>>
    /\ patch_receiver = 0
    /\ clear_patches_rx = 0
    /\ clients = [c \in Clients |-> NoClient]
    /\ builders = [b \in Builders |-> NotBuilt]
    /\ disk = [exe |-> [b \in Builders |-> 0], bundle |-> [b \in Builders |-> 0]]
    /\ os = [spawned |-> 0, killed |-> [p \in Pids |-> 0]]
    /\ time = [thin |-> 0, fat |-> [b \in Builders |-> 0]]
    /\ ev = NoEvent
    /\ hs = NoHandshake
    /\ hist = [signal |-> -1, drain |-> -1, spawn |-> [b \in Builders |-> None],
               full |-> FALSE]
    /\ demo = NoDemo

NextThinLink == \E io \in PatchIo : write_patch(io)

SpecThinLink == InitThinLink /\ [][NextThinLink]_vars

\* The handshake queries of the spawned children: each reports the
\* aslr_reference of its own address space.
ChildQueries == {Some(<<[key |-> "aslr_reference", val |-> v]>>) : v \in {<<"7">>, <<"9">>}}

\* The native Builder with the children it spawns as the clients of the
\* server: hs holds, per pid, the query of the last handshake of that process.
InitAslr ==
    /\ hs = [p \in Pids |-> None]
    /\ aslr_reference = 0
    /\ patch_queue = <<>>
    /\ patch_receiver = 0
    /\ clear_patches_rx = 0
    /\ clients = [c \in Clients |-> NoClient]
    /\ builders = [b \in Builders |-> IF b = "server" THEN ReadyBuilder ELSE NotBuilt]
    /\ disk = [exe |-> [b \in Builders |-> IF b = "server" THEN 1 ELSE 0],
               bundle |-> [b \in Builders |-> IF b = "server" THEN 1 ELSE 0]]
    /\ os = [spawned |-> 0, killed |-> [p \in Pids |-> 0]]
    /\ time = [thin |-> 0, fat |-> [b \in Builders |-> IF b = "server" THEN 1 ELSE 0]]
    /\ ev = NoEvent
    /\ hist = [signal |-> -1, drain |-> -1, spawn |-> [b \in Builders |-> None],
               full |-> FALSE]
    /\ demo = NoDemo
    /\ link = NoLink
    /\ cmd = NoCmd

NextAslr ==
    \/ \E c \in Clients : run(c, TRUE) /\ UNCHANGED <<ev, hs>>
    \/ \E c \in Clients, p \in 1..os.spawned, query \in ChildQueries :
          /\ client_handshake(c, query, "ok")
          /\ hs' = [hs EXCEPT ![p] = Some(query)]
          /\ UNCHANGED ev
    \/ \E b \in Builders : \E fail \in ThinSteps(ctx[b]) :
          build_thin(b, fail) /\ ev' = ThinEvent(b, fail) /\ UNCHANGED hs
    \/ \E b \in Builders, spawn_ok \in BOOLEAN :
          run_if_native(b, spawn_ok) /\ ev' = RunEvent(b, spawn_ok) /\ UNCHANGED hs

SpecAslr == InitAslr /\ [][NextAslr]_vars

\* The queries of the handshakes that follow one another on the shared
\* atomic: none, no aslr_reference, 0, no number, and two different values.
StoreQueries ==
    SomeQueries \cup {Some(<<[key |-> "aslr_reference", val |-> <<"7", "0">>]>>)}

\* Handshakes one after the other and in any order with the thin builds that
\* load the atomic: hs holds the last handshake and the value the atomic held
\* when it started.
NextStores ==
    \/ \E c \in Clients, stream_ok \in BOOLEAN : run(c, stream_ok) /\ UNCHANGED <<ev, hs>>
    \/ \E c \in Clients, query \in StoreQueries, io \in HandshakeIo :
          /\ client_handshake(c, query, io)
          /\ hs' = [c |-> c, query |-> query, io |-> io, pre |-> aslr_reference]
          /\ UNCHANGED ev
    \/ \E b \in Builders : \E fail \in ThinSteps(ctx[b]) :
          build_thin(b, fail) /\ UNCHANGED <<ev, hs>>

SpecStores == InitReady /\ [][NextStores]_vars

\* What clear_patches_if_command_received meets when it gets a signal: the
\* state, cursor and frame count of every connection, and the tail of the queue.
ClearEvent ==
    [op |-> "clear",
     st |-> [c \in Clients |-> clients[c].st],
     cur |-> [c \in Clients |-> clients[c].cur],
     sent |-> [c \in Clients |-> Len(clients[c].sent)],
     tail |-> Len(patch_queue)]

\* The server with its subscribers while ClearPatches signals are processed:
\* ev holds what the last processed signal met.
NextClear ==
    \/ send_clear_patches /\ UNCHANGED <<ev, hs>>
    \/ \E c \in Clients :
          /\ run(c, TRUE)
          /\ ev' = IF clear_patches_rx > 0 THEN ClearEvent ELSE ev
          /\ UNCHANGED hs
    \/ \E c \in Clients :
          client_handshake(c, Some(<<[key |-> "aslr_reference", val |-> <<"7">>]>>), "ok")
              /\ UNCHANGED <<ev, hs>>
    \/ \E c \in Clients : peer_close(c) /\ UNCHANGED <<ev, hs>>
    \/ \E c \in Clients, can_write \in BOOLEAN :
          client_loop(c, can_write) /\ UNCHANGED <<ev, hs>>
    \/ \E b \in Builders : build_thin(b, "none") /\ UNCHANGED <<ev, hs>>

SpecClear == InitPair /\ [][NextClear]_vars

\* ================================================================ claims

\* C1: on a non-wasm target, build_thin called while the ASLR atomic is 0 is
\* rejected: no thin compile, stub or link is started, no patch file is
\* produced, nothing is put on the broadcast queue, and the Builder is as it
\* was before the call.
C1_ThinRejectedWhileAslrZero ==
    (ev.op = "thin" /\ ~is_wasm_or_wasi(ctx[ev.b]) /\ ev.run.aslr = 0) =>
        /\ ~ev.run.compiled /\ ~ev.run.stubbed /\ ~ev.run.linked
        /\ ~ev.run.patch /\ ~ev.run.copied
        /\ ev.run.sent = "none"
        /\ Len(patch_queue) = ev.pre.queue
        /\ time.thin = ev.pre.thin
        /\ builders[ev.b] = ev.pre.builder

\* The native Builder was asked for a thin build before any handshake stored
\* an ASLR reference, after a fat build that succeeded.
C1_Witness ==
    /\ ev.op = "thin" /\ ev.b = "server" /\ ev.run.aslr = 0 /\ ev.run.canceled
    /\ builders["server"].alive /\ builders["server"].cache # 0

\* C8 (as claimed): when the queue is full at publish time the publish is
\* abandoned, nothing is added to the queue, and the Builder remains usable
\* for the next command.
C8_FullQueueLeavesBuilderUsable ==
    (ev.op = "thin" /\ ev.run.sent = "full") =>
        /\ Len(patch_queue) = ev.pre.queue
        /\ builders[ev.b].alive

\* C10 (as claimed): a fat or thin build that fails at some step publishes
\* nothing, leaves the module cache and the captured rustc arguments as they
\* were, and leaves the Builder able to process the next command.
C10_FailedBuildLeavesBuilderReady ==
    (ev.op \in {"fat", "thin"} /\ ev.fail # "none") =>
        /\ Len(patch_queue) = ev.pre.queue
        /\ builders[ev.b].cache = ev.pre.builder.cache
        /\ builders[ev.b].rustc_args = ev.pre.builder.rustc_args
        /\ builders[ev.b].alive

\* C11: a thin build asked of a Builder that holds no module cache of a fat
\* build is rejected: no thin compile, no stub, no link, no patch and no
\* publish happen.
C11_ThinRejectedWithoutFatCache ==
    (ev.op = "thin" /\ ev.pre.builder.cache = 0) =>
        /\ ~ev.run.compiled /\ ~ev.run.stubbed /\ ~ev.run.linked
        /\ ~ev.run.patch /\ ~ev.run.copied
        /\ ev.run.sent = "none"
        /\ Len(patch_queue) = ev.pre.queue

\* The wasm Builder, which the ASLR guard lets through, was asked for a thin
\* build before any fat build and stopped while building the command.
C11_Witness ==
    /\ ev.op = "thin" /\ ev.b = "front" /\ ~ev.run.canceled
    /\ ev.pre.builder.alive /\ ev.pre.builder.cache = 0
    /\ ev.fail = "command" /\ ~builders["front"].alive

\* The messages of queue (or frames of a subscriber) that Builder b made, by
\* the time_start of their thin build, in the order they stand in.
TablesOf(b, seq) ==
    LET lib(x) == IF "frame" \in DOMAIN x THEN x.jump_table.lib ELSE x.jump_table[1].lib
        mine == SelectSeq(seq, LAMBDA x : lib(x).dir = PublishedTable(ctx[b], 0).lib.dir)
    IN [i \in 1..Len(mine) |-> lib(mine[i]).file]

Increasing(seq) == \A i, j \in 1..Len(seq) : i < j => seq[i] < seq[j]

\* C12: the jump tables of one Builder stand on the queue in the order their
\* thin builds were handled (a publish adds the table of the build just
\* handled at the tail and moves nothing), and every subscriber is sent the
\* frames of that Builder's tables in that same order.
C12_PublicationOrder ==
    /\ [][Len(patch_queue') > Len(patch_queue) =>
            /\ SubSeq(patch_queue', 1, Len(patch_queue)) = patch_queue
            /\ Len(patch_queue') = Len(patch_queue) + 1
            /\ patch_queue'[Len(patch_queue')].jump_table[1].lib.file = time'.thin
            /\ time'.thin > time.thin]_vars
    /\ [](\A b \in Builders :
            /\ Increasing(TablesOf(b, patch_queue))
            /\ \A c \in Clients : Increasing(TablesOf(b, clients[c].sent)))

\* A subscriber was sent three frames of the wasm Builder, of the thin builds
\* 1, 2 and 3.
C12_Witness ==
    \E c \in Clients : TablesOf("front", clients[c].sent) = <<1, 2, 3>>

\* The aslr_reference parameters of a query, in order.
AslrParams(query) ==
    IF query = None THEN <<>>
    ELSE SelectSeq(query[1], LAMBDA s : s.key = "aslr_reference")

IsDecimal(str) == str # <<>> /\ \A i \in 1..Len(str) : str[i] \in Digits

RECURSIVE Pow10(_)
Pow10(n) == IF n = 0 THEN 1 ELSE 10 * Pow10(n - 1)

RECURSIVE DecimalSum(_, _)
DecimalSum(str, i) ==
    IF i > Len(str) THEN 0
    ELSE DigitVal(str[i]) * Pow10(Len(str) - i) + DecimalSum(str, i + 1)

\* The u64 the query carries in its (first) aslr_reference parameter; 0 when
\* the parameter is absent, is no number, or is 0.
Carried(query) ==
    LET ps == AslrParams(query)
    IN IF ps # <<>> /\ IsDecimal(ps[1].val) THEN DecimalSum(ps[1].val, 1) ELSE 0

\* C4: once the handshake completes, the atomic holds the non-zero u64 v that
\* the query carries as aslr_reference=<v>; with the parameter absent,
\* unparseable or 0 the atomic is as it was; in both cases the client is
\* accepted and its stream stays subscribed.
C4_HandshakeStoresNonZeroAslr ==
    (hs.io = "ok" /\ clients[hs.c].st \notin {"free", "accepted"}) =>
        /\ aslr_reference = IF Carried(hs.query) # 0 THEN Carried(hs.query) ELSE hs.pre
        /\ clients[hs.c].st = "open"
        /\ LiveStream(hs.c)

\* A handshake that reports 0 after an earlier one stored 7 completed and
\* left the 7 in place.
C4_Witness ==
    /\ hs.io = "ok" /\ clients[hs.c].st = "open"
    /\ hs.pre = 7 /\ aslr_reference = 7
    /\ hs.query = Some(<<[key |-> "build_id", val |-> <<"7">>],
                         [key |-> "aslr_reference", val |-> <<"0">>]>>)

\* A connection that got a stream from add_stream.
Subscribed(c) == clients[c].st \in {"accepted", "open", "closed", "dead"}

\* C2 (as claimed): a subscriber that connects after n publishes receives
\* those n messages in publication order before any later message, unless a
\* ClearPatches signal was received between the last of the n publishes and
\* the subscription (the server's last drain happened with n messages
\* published).
C2_ReplayOfAllEarlierPublishes ==
    \A c \in Clients :
        (Subscribed(c) /\ clients[c].sub.drain # clients[c].sub.n) =>
            \A i \in 1..Len(clients[c].sent) :
                clients[c].sent[i] = TextFrame(patch_queue[i])

\* C2 (amended): a subscriber receives, in publication order and before any
\* later message, the messages published since the last drain of the server's
\* receiver (the last connection at which a pending ClearPatches signal was
\* found); messages published before that drain are not replayed.
C2_ReplaySinceLastDrain ==
    \A c \in Clients :
        Subscribed(c) =>
            LET first == IF clients[c].sub.drain < 0 THEN 0 ELSE clients[c].sub.drain
            IN \A i \in 1..Len(clients[c].sent) :
                  /\ first + i <= Len(patch_queue)
                  /\ clients[c].sent[i] = TextFrame(patch_queue[first + i])

\* A subscriber connected after three publishes, the first of them drained at
\* an earlier connection, and received the two later ones.
C2_Witness ==
    \E c \in Clients :
        /\ clients[c].sub.n = 3 /\ clients[c].sub.drain = 1
        /\ Len(clients[c].sent) = 2

\* C3: a subscriber that connects after a ClearPatches signal was sent
\* receives no message that was published before that signal.
C3_NoStalePatchAfterClear ==
    \A c \in Clients :
        Subscribed(c) =>
            \A i \in 1..Len(clients[c].sent) :
                \A k \in 1..clients[c].sub.signal :
                    clients[c].sent[i] # TextFrame(patch_queue[k])

\* Two messages were published, the signal was sent, a third message was
\* published, and a subscriber that connected after that received a frame.
C3_Witness ==
    \E c \in Clients :
        /\ clients[c].sub.signal = 2 /\ clients[c].sub.n = 3
        /\ Len(clients[c].sent) = 1

\* C5: every message put on the queue carries for_pid equal to the pid of the
\* child most recently spawned by run_if_native of the Builder that published
\* it (None if that Builder spawned none), and every frame sent to a
\* subscriber is the frame of the next message of its stream, with the
\* for_pid of that message.
C5_ForPidVerbatim ==
    /\ [][Len(patch_queue') > Len(patch_queue) =>
            LET msg == patch_queue'[Len(patch_queue')]
            IN \E b \in Builders :
                  /\ builders[b].alive
                  /\ msg.jump_table = Some(PublishedTable(ctx[b], time'.thin))
                  /\ msg.for_pid = hist.spawn[b]]_vars
    /\ [][\A c \in Clients :
            Len(clients'[c].sent) > Len(clients[c].sent) =>
                LET frame == clients'[c].sent[Len(clients'[c].sent)]
                    msg == patch_queue[clients[c].cur + 1]
                IN /\ frame.jump_table = TextFrame(msg).jump_table
                   /\ frame.for_pid = JOptNum(msg.for_pid)
                   /\ frame.for_pid \in {JNull} \cup {JNum(p) : p \in Pids}]_vars

\* A subscriber was sent a frame of the wasm Builder, which carries no pid,
\* and a frame that carries the pid of the second child the native Builder
\* spawned.
C5_Witness ==
    \E c \in Clients : \E i, j \in 1..Len(clients[c].sent) :
        /\ clients[c].sent[i].for_pid = JNum(2)
        /\ clients[c].sent[i].jump_table.lib.dir = "target"
        /\ clients[c].sent[j].for_pid = JNull
        /\ clients[c].sent[j].jump_table.lib.dir = "/pkg/"
        /\ hist.spawn = [b \in Builders |-> IF b = "server" THEN Some(2) ELSE None]

\* C6: apply_patch is called only for a HotReload message that has a jump
\* table and whose for_pid is the client's own process id; a message whose
\* for_pid is None or another pid never causes the call.
C6_PidFilter ==
    /\ demo.called =>
          /\ demo.msg.kind = "HotReload"
          /\ demo.msg.jump_table # None
          /\ demo.msg.for_pid = Some(demo.pid)
    /\ \A m \in demo.applied :
          m.kind = "HotReload" /\ m.jump_table # None /\ m.for_pid = Some(demo.pid)

\* The client with pid 2 applied two patches addressed to it and then got a
\* jump table addressed to pid 1, which it did not apply.
C6_Witness ==
    /\ demo.pid = 2 /\ Cardinality(demo.applied) = 2
    /\ demo.msg.kind = "HotReload" /\ demo.msg.jump_table # None
    /\ demo.msg.for_pid = Some(1) /\ ~demo.called

\* A connected client has taken every message of its stream.
ClientDrained(c) ==
    /\ clients[c].st = "open" /\ ~clients[c].peer_gone
    /\ clients[c].cur = Len(patch_queue)

\* C9 (as claimed): after a publish was abandoned because the queue was full,
\* the next publish succeeds (the queue has a free slot) once a connected
\* client has drained its pending messages.
C9_FreeSlotOnceClientDrained ==
    (hist.full /\ \E c \in Clients : ClientDrained(c)) => ~QueueFull

\* Subscriber c was sent the frame of the i-th message of the queue.
Delivered(c, i) ==
    /\ i <= Len(patch_queue)
    /\ \E k \in 1..Len(clients[c].sent) : clients[c].sent[k] = TextFrame(patch_queue[i])

\* C7: every jump table placed on the queue is eventually sent, as one text
\* frame and not twice, to every subscriber that was subscribed when it was
\* published and stays connected.
C7_FanOut ==
    /\ \A c \in Clients : \A i \in 1..MaxThin :
          (clients[c].st = "open" /\ clients[c].sub.n < i /\ i <= Len(patch_queue))
              ~> (clients[c].st # "open" \/ clients[c].peer_gone \/ Delivered(c, i))
    /\ [](\A c \in Clients : \A k \in 1..Len(clients[c].sent) :
            /\ clients[c].sent[k].frame = "Text"
            /\ \A j \in 1..Len(clients[c].sent) :
                  clients[c].sent[j] = clients[c].sent[k] => j = k)

\* Two subscribers were connected when a jump table was published and both
\* were sent its frame.
C7_Witness ==
    /\ Len(patch_queue) >= 1
    /\ \A c \in Clients :
          /\ clients[c].st = "open" /\ clients[c].sub.n = 0
          /\ Delivered(c, 1)

\* C13: every member of a libdeps-<hash>.a archive has a name ending in .rcgu.o
\* or .obj and a size that is not zero, and comes from an rlib inside the
\* working directory: members of rlibs outside it are never written.
C13_ArchivePurity ==
    \A f \in link.ar_files :
        \A i \in 1..Len(f.members) :
            /\ ends_with(f.members[i].name, ".rcgu.o") \/ ends_with(f.members[i].name, ".obj")
            /\ f.members[i].size # 0
            /\ link.rlib_files[f.members[i].from].in_working_dir

\* An archive with a member was written although the rlib in the working
\* directory also holds an empty object and a shared library, and the rlib
\* outside it an object the tests would accept.
C13_Witness ==
    /\ link.st = "linked"
    /\ link.archive[1].written
    /\ link.archive[1].members # <<>>
    /\ link.rlib_files["libapp.rlib"].in_working_dir
    /\ ~link.rlib_files["libstd.rlib"].in_working_dir
    /\ \E q \in {link.rlib_files["libapp.rlib"].contents[1]} :
          /\ \E i \in 1..Len(q) : q[i].ok /\ q[i].name = "app.rcgu.o" /\ q[i].size = 0
          /\ \E i \in 1..Len(q) : q[i].ok /\ q[i].name = "app.rcgu.o" /\ q[i].size # 0

\* The span the fat link of this state splices: the flavor's arguments around
\* the archive of the captured rlibs.
LinkSpan == whole_archive(linker_flavor(link.ctx), out_ar_path(FilterRlibs(link.link_args)))

\* Where span stands in args, as indexes of its first argument.
SpanAt(args, span) ==
    {i \in 1..Len(args) : i + Len(span) - 1 <= Len(args)
                            /\ SubSeq(args, i, i + Len(span) - 1) = span}

\* The places of the .o arguments of args.
Objects(args) == {i \in 1..Len(args) : ends_with(args[i].s, ".o")}

\* The fat link has spliced: supported flavor, a .o in the captured argv, an
\* archive with members.
Spliced ==
    /\ link.st = "linked"
    /\ LinkSpan # <<>>
    /\ Objects(Tail(link.link_args)) # {}
    /\ link.archive[1].members # <<>>

\* C14: rewriting an argv that already contains the whole-archive span for
\* libdeps-<hash>.a yields an argv in which that span occurs exactly once.
C14_SpanOnce ==
    (link.st = "linked" /\ LinkSpan # <<>> /\ SpanAt(Tail(link.link_args), LinkSpan) # {}) =>
        Cardinality(SpanAt(link.args, LinkSpan)) = 1

\* C19 as stated: the span is contiguous and the argument right after it is
\* the last .o argument.
C19_SpanImmediatelyBeforeLastObject ==
    Spliced =>
        \E i \in SpanAt(link.args, LinkSpan) :
            /\ i + Len(LinkSpan) = Max(Objects(link.args))
            /\ link.args[i + Len(LinkSpan)]
                   = Tail(link.link_args)[Max(Objects(Tail(link.link_args)))]

\* C19, amended: the span is contiguous and stands before the last .o
\* argument, with nothing between the two but the rlibs kept for the linker.
C19_SpanBeforeLastObject ==
    Spliced =>
        \E i \in SpanAt(link.args, LinkSpan) :
            \E j \in (i + Len(LinkSpan))..Len(link.args) :
                /\ j = Max(Objects(link.args))
                /\ link.args[j] = Tail(link.link_args)[Max(Objects(Tail(link.link_args)))]
                /\ \A m \in (i + Len(LinkSpan))..(j - 1) :
                      /\ ends_with(link.args[m].s, ".rlib")
                      /\ \E n \in 1..Len(link.compiler_rlibs) :
                            link.compiler_rlibs[n] = link.args[m]

\* Two objects in the captured argv, an rlib kept for the linker, and the
\* span spliced before the second object.
C19_Witness ==
    /\ Spliced
    /\ link.runs = 1
    /\ link.compiler_rlibs # <<>>
    /\ Cardinality(Objects(link.args)) = 2
    /\ \E i \in SpanAt(link.args, LinkSpan) : i > 1

\* C20: no .rlib argument of the captured argv remains except the rlibs kept
\* for the linker, and those stand together right after the span.
C20_RlibsRightAfterSpan ==
    Spliced =>
        /\ \A m \in 1..Len(link.args) :
              ends_with(link.args[m].s, ".rlib") =>
                  \E n \in 1..Len(link.compiler_rlibs) : link.compiler_rlibs[n] = link.args[m]
        /\ \E i \in SpanAt(link.args, LinkSpan) :
              /\ i + Len(LinkSpan) + Len(link.compiler_rlibs) - 1 <= Len(link.args)
              /\ SubSeq(link.args, i + Len(LinkSpan),
                        i + Len(LinkSpan) + Len(link.compiler_rlibs) - 1) = link.compiler_rlibs

\* C15: when the platform linker of the fat link exits with a non-zero
\* status, build_fat neither copies the artifact into the bundle nor returns
\* an artifact path.
C15_LinkerFailureIsFatal ==
    (ev.op = "fat" /\ ev.fail \in {"linker_status", "linker_removed"}) =>
        /\ ~ev.run.bundled
        /\ ~ev.run.returned

\* C16: on a non-wasm target, when the stub cannot be made because a symbol
\* the patch leaves undefined is not in the module cache, the thin build is
\* aborted: the linker is not run, no patch is produced and no jump table is
\* published.
C16_StubFailureAbortsThinBuild ==
    (/\ ev.op = "thin"
     /\ ~is_wasm_or_wasi(ctx[ev.b])
     /\ ev.run.compiled
     /\ ~(PatchSymbols(ev.fail) \subseteq CacheSymbols)) =>
        /\ ~ev.run.linked
        /\ ~ev.run.patch
        /\ ev.run.sent = "none"
        /\ Len(patch_queue) = ev.pre.queue

\* A thin build on the native target whose compile has run and whose patch
\* needs a symbol the cache lacks, with a client's handshake stored before.
C16_Witness ==
    /\ ev.op = "thin"
    /\ ~is_wasm_or_wasi(ctx[ev.b])
    /\ ev.run.compiled
    /\ ev.run.aslr # 0
    /\ ~(PatchSymbols(ev.fail) \subseteq CacheSymbols)

\* The variables the child of the built command sees: the parent's
\* environment is cleared, so those Command holds a value for.
ChildEnv == {p.k : p \in {q \in cmd.env.vars : q.v # None}}

\* C17: whatever was captured, the thin compile command has RUSTC_WRAPPER,
\* RUSTC_WORKSPACE_WRAPPER and DX_RUSTC unset, has DX_LINK, DX_LINK_ARGS_FILE,
\* DX_LINK_ERR_FILE and DX_LINK_TRIPLE set, and its argv is the captured argv
\* from index 1, then -Clinker, then on wasm only -Crelocation-model=pic.
C17_ThinCommand ==
    cmd.st = "built" =>
        /\ cmd.env.clear
        /\ ChildEnv \cap {"RUSTC_WRAPPER", "RUSTC_WORKSPACE_WRAPPER", "DX_RUSTC"} = {}
        /\ {"DX_LINK", "DX_LINK_ARGS_FILE", "DX_LINK_ERR_FILE", "DX_LINK_TRIPLE"}
               \subseteq ChildEnv
        /\ cmd.args = SubSeq(cmd.rustc_args.args, 2, Len(cmd.rustc_args.args))
                          \o <<"-Clinker=dx">>
                          \o (IF cmd.ctx.architecture \in {"Wasm32", "Wasm64"}
                                 \/ cmd.ctx.operating_system = "Wasi"
                              THEN <<"-Crelocation-model=pic">> ELSE <<>>)

\* C18: when a Builder that holds a child process is dropped, kill is called
\* on that child exactly once; when the kill fails, the failure is logged and
\* the drop completes: the Builder is gone, nothing else has changed.
C18_DropKillsOnce ==
    /\ \A b \in Builders :
          builders[b].running_binary # None =>
              os.killed[builders[b].running_binary[1]] = IF builders[b].alive THEN 0 ELSE 1
    /\ (ev.op = "drop" /\ ev.pre.builder.running_binary # None) =>
          /\ builders[ev.b] = [ev.pre.builder EXCEPT !.alive = FALSE]
          /\ Len(patch_queue) = ev.pre.queue
          /\ ev.fail = "kill" => ev.run.log = "error: Couldn't kill running executable!"

\* A Builder with a child was dropped and the kill failed.
C18_Witness ==
    /\ ev.op = "drop"
    /\ ev.fail = "kill"
    /\ ev.pre.builder.running_binary # None
    /\ ~builders[ev.b].alive

\* The places of the output directives of args: -o, --output, /OUT:..
Outputs(args) ==
    {i \in 1..Len(args) : args[i].s \in {"-o", "--output"} \/ starts_with_OUT(args[i].s)}

\* C21: whatever -o, --output and /OUT: arguments were captured, the argv the
\* fat link produces holds exactly one output directive, at its end, and it
\* names the artifact path the compiler expects.
C21_OneOutputDirectiveLast ==
    link.st = "linked" =>
        /\ Cardinality(Outputs(link.args)) = 1
        /\ Len(link.args) >= Len(output_file(link.ctx))
        /\ SubSeq(link.args, Len(link.args) - Len(output_file(link.ctx)) + 1, Len(link.args))
              = output_file(link.ctx)

\* The entries of an rlib the archive reader hands out: those before the
\* first one it cannot read.
RECURSIVE ReadableEntries(_)
ReadableEntries(q) ==
    IF q = <<>> \/ ~Head(q).ok THEN <<>> ELSE <<Head(q)>> \o ReadableEntries(Tail(q))

\* The rlibs of the captured argv that lie in the working directory.
InTreeRlibs ==
    {r \in {link.link_args[i].s : i \in 1..Len(link.link_args)} :
        ends_with(r, ".rlib") /\ link.rlib_files[r].in_working_dir}

\* The list of rlibs kept for the linker, as fat_link holds it when it
\* writes rlibs-<hash>.txt, as a set of names.
SidecarList == {link.compiler_rlibs[i].s : i \in 1..Len(link.compiler_rlibs)}

\* The archive was made anew by the link of this state.
Regenerated == link.st = "linked" /\ link.archive[1].written

CurrentCompilerRlibs ==
    SelectSeq(FilterRlibs(link.link_args),
              LAMBDA r : \/ ~link.rlib_files[r.s].in_working_dir
                         \/ \E i \in 1..Len(ReadableEntries(link.rlib_files[r.s].contents[1])) :
                               LET e == link.rlib_files[r.s].contents[1][i]
                               IN /\ ~ends_with(e.name, ".rmeta")
                                  /\ e.size # 0
                                  /\ ~(ends_with(e.name, ".rcgu.o")
                                         \/ ends_with(e.name, ".obj")))

\* C23: archive and list are reused only when both files exist and the
\* driver is no debug build, else both are made anew; the list used for the
\* link names the compiler and system rlibs of the captured rlibs.
C23_CachePolicy ==
    link.st = "linked" =>
        /\ ~link.archive[1].written => (link.archive[1].listed /\ ~link.debug_assertions)
        /\ \A r \in {CurrentCompilerRlibs[i] : i \in 1..Len(CurrentCompilerRlibs)} :
              \E n \in 1..Len(link.compiler_rlibs) : link.compiler_rlibs[n] = r

\* C24: the flavor is Darwin (Mach) for Apple triples, Msvc (Coff) for
\* Windows-MSVC triples, Gnu (Elf) for Linux and GNU triples and WasmLld for
\* wasm triples, and each of the four is the flavor of some triple.
C24_FlavorOfTriple ==
    link.st = "linked" =>
          /\ (/\ link.ctx.operating_system \in {"Darwin", "MacOSX", "Ios"}
              /\ link.ctx.architecture \in {"X86_64", "Aarch64"}
              /\ link.ctx.environment = "Unknown") => link.flavor = "Darwin"
          /\ (/\ link.ctx.operating_system = "Windows"
              /\ link.ctx.architecture \in {"X86_64", "Aarch64"}
              /\ link.ctx.environment = "Msvc") => link.flavor = "Msvc"
          /\ (/\ link.ctx.operating_system = "Linux"
              /\ link.ctx.architecture \in {"X86_64", "Aarch64"}) => link.flavor = "Gnu"
          /\ (/\ link.ctx.architecture \in {"Wasm32", "Wasm64"}
              /\ link.ctx.operating_system \in {"Unknown", "Wasi"}
              /\ link.ctx.environment = "Unknown") => link.flavor = "WasmLld"
          /\ \A flavor \in {"Darwin", "Msvc", "Gnu", "WasmLld"} :
                \E triple \in AllTriples : linker_flavor(triple) = flavor

\* C25: on every wasm target the published jump table has lib /pkg/<name of
\* the patch> and the patch was copied to the site before the publish; on
\* the other targets lib is the path of the patch.
C25_PkgPathOnWasm ==
    (ev.op = "thin" /\ ev.run.sent = "ok") =>
        IF is_wasm_or_wasi(ctx[ev.b])
        THEN /\ ev.run.msg.jump_table = Some([lib |-> [dir |-> "/pkg/",
                                                       file |-> ev.run.time_start]])
             /\ ev.run.copied
        ELSE ev.run.msg.jump_table = Some(JumpTableOf(ev.run.time_start))

\* ------------------------------------------------------------------ C26
\* The .rcgu.o arguments of the captured thin argv.
Rcgu(args) == {i \in 1..Len(args) : args[i] \in {"app.rcgu.o", "core.rcgu.o"}}

\* seq holds exactly the .rcgu.o arguments of args, each as often as args
\* does, in lexicographic order ("app.rcgu.o" before "core.rcgu.o").
SortedRcguOf(seq, args) ==
    /\ Len(seq) = Cardinality(Rcgu(args))
    /\ \A n \in {"app.rcgu.o", "core.rcgu.o"} :
          Cardinality({i \in 1..Len(seq) : seq[i] = n})
              = Cardinality({i \in Rcgu(args) : args[i] = n})
    /\ \A i, j \in 1..Len(seq) : (seq[i] = "core.rcgu.o" /\ seq[j] = "app.rcgu.o") => j < i

\* The linker's input list: what the command line begins with.
LinkerInputs == SubSeq(cmd.out_args, 1, Len(cmd.object_files))

\* C26 as stated: whenever the thin linker was run, its input list is, on a
\* non-wasm target, stub.o followed by the sorted .rcgu.o files of the captured
\* thin argv and, on wasm, the sorted .rcgu.o files alone.
C26_StubFirst ==
    cmd.out_args # None =>
        IF is_wasm_or_wasi(cmd.ctx)
        THEN SortedRcguOf(LinkerInputs, cmd.link_args_file)
        ELSE /\ LinkerInputs # <<>>
             /\ Head(LinkerInputs) = "stub.o"
             /\ SortedRcguOf(Tail(LinkerInputs), cmd.link_args_file)

\* C26 amended: whenever the thin linker was run, its input list is, on a
\* non-wasm target, the sorted .rcgu.o files of the captured thin argv followed
\* by stub.o and, on wasm, the sorted .rcgu.o files alone.
C26_StubLast ==
    cmd.out_args # None =>
        IF is_wasm_or_wasi(cmd.ctx)
        THEN SortedRcguOf(LinkerInputs, cmd.link_args_file)
        ELSE /\ LinkerInputs # <<>>
             /\ LinkerInputs[Len(LinkerInputs)] = "stub.o"
             /\ SortedRcguOf(SubSeq(LinkerInputs, 1, Len(LinkerInputs) - 1),
                             cmd.link_args_file)

\* A non-wasm thin link was run over an argv that names core.rcgu.o before
\* app.rcgu.o.
C26_Witness ==
    /\ cmd.st = "patched"
    /\ ~is_wasm_or_wasi(cmd.ctx)
    /\ \E i, j \in 1..Len(cmd.link_args_file) :
          i < j /\ cmd.link_args_file[i] = "core.rcgu.o" /\ cmd.link_args_file[j] = "app.rcgu.o"

\* ------------------------------------------------------------------ C27
\* C27: whenever build_thin has linked a patch for a non-wasm target, the ASLR
\* value it read and gave to the stub is the value that the process whose pid
\* is the message's for_pid reported in its handshake.
C27_AslrOfPublishedPid ==
    (ev.op = "thin" /\ ev.run.linked /\ ~is_wasm_or_wasi(ctx[ev.b])) =>
        \E p \in Pids :
            /\ ev.run.msg.for_pid = Some(p)
            /\ hs[p] # None
            /\ Carried(hs[p][1]) = ev.run.aslr

\* ------------------------------------------------------------------ C28
\* C28: no step takes the shared ASLR atomic from a non-zero value to 0,
\* whatever the handshakes report and however they interleave.
C28_NeverBackToZero == [][aslr_reference # 0 => aslr_reference' # 0]_vars

\* A handshake whose callback ran on an atomic that held a non-zero value,
\* with a query that reports 0, nothing or no number: the value is still there.
C28_Witness ==
    /\ hs.io \in {"ok", "write_failed"}
    /\ hs.pre # 0
    /\ Carried(hs.query) = 0
    /\ clients[hs.c].st \in {"open", "dead"}
    /\ aslr_reference = hs.pre

\* ------------------------------------------------------------------ C29
\* C29: once the Builder is dropped, kill has been called on every child
\* that its run_if_native calls spawned (the one Builder of the run spawned
\* the children 1..os.spawned).
C29_EveryChildKilled ==
    \A b \in Builders :
        (ctx[b].bin # None /\ builders[b] # NotBuilt /\ ~builders[b].alive) =>
            \A p \in 1..os.spawned : os.killed[p] >= 1

\* ------------------------------------------------------------------ C30
\* C30: processing a ClearPatches signal takes nothing from the stream of a
\* subscriber that was connected at that moment: its cursor is not moved by
\* the drain, and the messages published before the clear that it had not
\* consumed are the ones it consumes next, each sent as its frame, in the
\* order of the queue (a thread that has ended sends no more).
C30_ClearKeepsSubscriberStreams ==
    ev.op = "clear" =>
        \A c \in Clients :
            ev.st[c] \in {"accepted", "open"} =>
                /\ clients[c].cur >= ev.cur[c]
                /\ Len(clients[c].sent) - ev.sent[c] <= clients[c].cur - ev.cur[c]
                /\ (clients[c].st = "open" /\ ~clients[c].peer_gone) =>
                      Len(clients[c].sent) - ev.sent[c] = clients[c].cur - ev.cur[c]
                /\ \A k \in 1..(Len(clients[c].sent) - ev.sent[c]) :
                      clients[c].sent[ev.sent[c] + k] = TextFrame(patch_queue[ev.cur[c] + k])

\* A subscriber had two messages pending when a signal was processed and has
\* been sent both since.
C30_Witness ==
    /\ ev.op = "clear"
    /\ \E c \in Clients :
          /\ ev.st[c] = "open"
          /\ ev.tail - ev.cur[c] >= 2
          /\ clients[c].cur >= ev.tail
          /\ Len(clients[c].sent) - ev.sent[c] = clients[c].cur - ev.cur[c]

====
